---- MODULE Spec2Model ----
(***************************************************************************)
(* Model of the character-creation input pipeline: the field matcher of   *)
(* csv_converter.py, the tabular importer csv_row_to_character and the     *)
(* record validator validate_character_input of character_input.py.       *)
(*                                                                         *)
(* Python strings are TLA+ strings; Len, SubSeq and \o act on them         *)
(* character by character, so lower(), strip() and replace() are computed  *)
(* as the code computes them.                                              *)
(***************************************************************************)
EXTENDS Integers, Sequences, FiniteSets, TLC

VARIABLES
  pc,              \* position of the run: which operation has been applied
  label,           \* matcher: the external field label
  base,            \* matcher: the registered label the input is a variant of
  normalized,      \* matcher: normalize_field_name(label)
  match,           \* matcher: find_matching_field(label)
  source,          \* pipeline: "row" (tabular) or "object" (native JSON/JSONL)
  csv_row,         \* importer: the tabular row, its cells in column order
  csv_result,      \* importer: (ok, error, character) of csv_row_to_character
  input_object,    \* validator: the raw input object
  result,          \* validator: (ok, error, canonical record)
  csv_file,        \* converter: the tabular file given to csv_to_json
  output_paths,    \* converter: which of json_output_path, jsonl_output_path are given
  conversion,      \* converter: (ok, error, data) of csv_to_json, or its exception
  output_files,    \* converter: the files csv_to_json has written
  response,        \* parser: the text given to validate_json_output
  core,            \* parser: the JSON text the response was built around, if any
  validated,       \* parser: (is_valid, json_dict, error_message)
  text_output,     \* parser: the text of flatten_json_for_text
  dnd_args,        \* enhancer: the arguments of the call
  subclass_valid,  \* enhancer: the answer of is_valid_subclass
  generator_calls, \* enhancer: the Text Generator calls issued, in order
  enhanced,        \* enhancer: what enhance_character returned or raised
  argv,            \* main: the parsed command line and the input file it names
  environment,     \* main: whether the configuration of the environment is complete
  file_result,     \* main: (is_valid, error_msg, characters) of process_character_file
  character_args_list,  \* main: the argument mapping of each character
  char_idx,        \* main: the number of the character being processed
  locals,          \* main: the loop's variables for the current character
  operations,      \* main: the collaborator calls and file writes made, in order
  exit_status,     \* main: running, or how the run ended
  files,           \* history: the text of each file on disk, None when absent
  trackers,        \* history: the paths CharacterCSVTracker objects were built on
  answer,          \* history: what the last operation returned
  writes,          \* history: the operations that wrote a file, in order
  gemini_client,   \* client: project, location, model_name and the cached _model
  vertexai,        \* client: the arguments of the last vertexai.init
  client_calls     \* client: the calls made on the client and their outcomes

pipelineVars == <<label, base, normalized, match, source, csv_row, csv_result,
                  input_object, result>>
fileVars == <<csv_file, output_paths, conversion, output_files>>
parserVars == <<response, core, validated, text_output>>
enhancerVars == <<dnd_args, subclass_valid, generator_calls, enhanced>>
mainVars == <<argv, environment, file_result, character_args_list, char_idx,
              locals, operations, exit_status>>

historyVars == <<files, trackers, answer, writes>>
clientVars == <<gemini_client, vertexai, client_calls>>

vars == <<pc, pipelineVars, fileVars, parserVars, enhancerVars, mainVars,
          historyVars, clientVars>>

\* the variables outside each part of the model
notPipeline == <<fileVars, parserVars, enhancerVars, mainVars,
  historyVars, clientVars>>
notFile == <<pipelineVars, parserVars, enhancerVars, mainVars,
  historyVars, clientVars>>
notParser == <<pipelineVars, fileVars, enhancerVars, mainVars,
  historyVars, clientVars>>
notEnhancer == <<pipelineVars, fileVars, parserVars, mainVars,
  historyVars, clientVars>>
notMain == <<pipelineVars, fileVars, parserVars, enhancerVars,
  historyVars, clientVars>>
notHistory == <<pipelineVars, fileVars, parserVars, enhancerVars, mainVars,
  clientVars>>
notClient == <<pipelineVars, fileVars, parserVars, enhancerVars, mainVars,
  historyVars>>

(***************************************************************************)
(* Bounds of the model                                                     *)
(***************************************************************************)
MaxLabelLen == 4     \* length of the free labels given to the matcher
MaxPad == 1          \* spaces added before or after a registered label
MaxDeviations == 2   \* parts of an input object that differ from the plain one
MaxRowDeviations == 2  \* parts of a tabular row that differ from the plain one

(***************************************************************************)
(* Python str primitives                                                   *)
(***************************************************************************)
UpperLetters == "ABCDEFGHIJKLMNOPQRSTUVWXYZ"
LowerLetters == "abcdefghijklmnopqrstuvwxyz"
TAB == "\t"
Whitespace == {" ", TAB}

CharAt(s, i) == SubSeq(s, i, i)

LowerTable ==
  [c \in {CharAt(UpperLetters, i) : i \in 1..26} |->
     CharAt(LowerLetters, CHOOSE i \in 1..26 : CharAt(UpperLetters, i) = c)]

LowerChar(c) == IF c \in DOMAIN LowerTable THEN LowerTable[c] ELSE c

RECURSIVE str_lower(_)
str_lower(s) ==
  IF s = "" THEN "" ELSE LowerChar(CharAt(s, 1)) \o str_lower(Tail(s))

str_strip(s) ==
  LET keep == {i \in 1..Len(s) : CharAt(s, i) \notin Whitespace}
  IN IF keep = {} THEN ""
     ELSE SubSeq(s, CHOOSE i \in keep : \A j \in keep : i <= j,
                    CHOOSE i \in keep : \A j \in keep : j <= i)

RECURSIVE str_replace(_, _, _)
str_replace(s, old, new) ==
  IF s = "" THEN ""
  ELSE (IF CharAt(s, 1) = old THEN new ELSE CharAt(s, 1))
       \o str_replace(Tail(s), old, new)

(***************************************************************************)
(* csv_converter.py: the field taxonomy                                    *)
(***************************************************************************)
TEMPLATE_SECTIONS ==
  <<
    [section |-> "Demographics", fields |-> <<
        "name", "titles", "age", "sex/gender", "pronouns", "ethnicity",
        "occupation", "socioeconomic status", "education", "other notes"
      >>],
    [section |-> "Physical Appearance", fields |-> <<
        "eye color", "skin color", "hair color", "height", "weight",
        "body type", "fitness level", "tattoos", "scars/birthmarks",
        "other distinguishing features", "disabilities", "fashion style",
        "accessories", "cleanliness/grooming", "posture/gait", "tics",
        "coordination (or lack thereof)", "weaknesses", "other notes"
      >>],
    [section |-> "History", fields |-> <<
        "birth date", "place of birth", "key family members",
        "notable family events/milestones",
        "notable personal events/milestones", "criminal record",
        "affiliations", "allies", "enemies", "skeletons in the closet",
        "other historical notes"
      >>],
    [section |-> "Psychological Traits", fields |-> <<
        "personality type", "personality traits", "temperament",
        "introvert/extrovert", "mannerisms", "educational background",
        "intelligence", "self-esteem", "hobbies", "skills/talents", "loves",
        "morals/virtues", "phobias/fears", "angered by", "pet peeves",
        "obsessed with", "routines", "bad habits", "desires", "flaws",
        "quirks", "favorite sayings", "disabilities", "secrets", "regrets",
        "accomplishments", "memories", "other notes"
      >>],
    [section |-> "Communication", fields |-> <<
        "languages known", "preferred communication methods", "accent",
        "style and pacing of speech", "pitch", "laughter", "smile",
        "use of gestures", "facial expressions", "verbal expressions",
        "other notes"
      >>],
    [section |-> "Strengths, Weaknesses, and Abilities", fields |-> <<
        "physical strengths", "physical weaknesses",
        "intellectual strengths", "intellectual weaknesses",
        "interpersonal strengths", "interpersonal weaknesses",
        "physical abilities", "magical abilities",
        "physical illnesses/conditions", "mental illnesses/conditions",
        "other notes"
      >>],
    [section |-> "Relationships", fields |-> <<
        "partner(s)significant other(s)", "lover(s)", "parents/guardians",
        "children", "grandparents", "grandchildren", "family", "pets",
        "best friends", "friends", "rivals", "enemies", "colleagues",
        "mentors/teachers", "idols/role models", "followers", "strangers",
        "non-living things", "clubs/memberships", "social media presence",
        "public perception of them", "other notes"
      >>],
    [section |-> "Character Growth", fields |-> <<
        "character archetype", "character arc", "core values",
        "internal conflicts", "external conflicts", "goals", "motivations",
        "epiphanies", "significant events/plot points", "other notes"
      >>]
  >>

METADATA_FIELDS == <<"new_doc_title", "json_output">>

(***************************************************************************)
(* csv_converter.py: the field matcher                                     *)
(***************************************************************************)
\* a slip: the label is not stripped
normalize_field_name_unstripped(field) ==
  str_replace(str_lower(field), " ", "_")

\* a slip: the label is not lowercased
normalize_field_name_case_sensitive(field) ==
  str_replace(str_strip(field), " ", "_")

normalize_field_name(field) ==
  str_replace(str_strip(str_lower(field)), " ", "_")

NoMatch == [found |-> FALSE, section |-> "", field |-> ""]
Match(s, f) == [found |-> TRUE, section |-> s, field |-> f]

\* every name the scan below compares against
RegisteredLabels ==
  {METADATA_FIELDS[i] : i \in 1..Len(METADATA_FIELDS)} \cup
  UNION {{TEMPLATE_SECTIONS[s].fields[i] : i \in 1..Len(TEMPLATE_SECTIONS[s].fields)}
         : s \in 1..Len(TEMPLATE_SECTIONS)}

\* normalize_field_name(meta_field) and normalize_field_name(field) of lines
\* 188 and 194: the registered names are fixed, so their normal forms are
\* tabulated once instead of being recomputed at every comparison
NormalizedRegistered == [f \in RegisteredLabels |-> normalize_field_name(f)]

\* for meta_field in METADATA_FIELDS: the first index that matches, else 0
RECURSIVE ScanMetadata(_, _)
ScanMetadata(i, norm) ==
  IF i > Len(METADATA_FIELDS) THEN 0
  ELSE IF NormalizedRegistered[METADATA_FIELDS[i]] = norm THEN i
  ELSE ScanMetadata(i + 1, norm)

\* for field in fields: the first index that matches, else 0
RECURSIVE ScanFields(_, _, _)
ScanFields(fields, i, norm) ==
  IF i > Len(fields) THEN 0
  ELSE IF NormalizedRegistered[fields[i]] = norm THEN i
  ELSE ScanFields(fields, i + 1, norm)

\* a slip: the sections are scanned from the last declared to the first
RECURSIVE ScanSections_backwards(_, _)
ScanSections_backwards(s, norm) ==
  IF s > Len(TEMPLATE_SECTIONS) THEN NoMatch
  ELSE LET sec == TEMPLATE_SECTIONS[Len(TEMPLATE_SECTIONS) + 1 - s]
           i == ScanFields(sec.fields, 1, norm)
       IN IF i # 0 THEN Match(sec.section, sec.fields[i])
          ELSE ScanSections_backwards(s + 1, norm)

\* for section, fields in TEMPLATE_SECTIONS.items()
RECURSIVE ScanSections(_, _)
ScanSections(s, norm) ==
  IF s > Len(TEMPLATE_SECTIONS) THEN NoMatch
  ELSE LET i == ScanFields(TEMPLATE_SECTIONS[s].fields, 1, norm)
       IN IF i # 0
          THEN Match(TEMPLATE_SECTIONS[s].section, TEMPLATE_SECTIONS[s].fields[i])
          ELSE ScanSections(s + 1, norm)

find_matching_field(csv_column) ==
  LET norm == normalize_field_name(csv_column)
      m == ScanMetadata(1, norm)
  IN IF m # 0 THEN Match("metadata", METADATA_FIELDS[m])
     ELSE ScanSections(1, norm)

(***************************************************************************)
(* Python values: a tagged payload.  A dict is the sequence of its items   *)
(* in insertion order, as Python iterates it.                              *)
(***************************************************************************)
Str(s) == [t |-> "str", v |-> s]
Num(n) == [t |-> "num", v |-> n]
Bool(b) == [t |-> "bool", v |-> b]
List(items) == [t |-> "list", v |-> items]
Dict(items) == [t |-> "dict", v |-> items]
None == [t |-> "null", v |-> ""]

Item(k, v) == [k |-> k, v |-> v]
EmptyDict == << >>

isinstance_dict(x) == x.t = "dict"

\* bool(x)
py_bool(x) ==
  CASE x.t = "null" -> FALSE
    [] x.t = "bool" -> x.v
    [] x.t = "num" -> x.v # 0
    [] x.t = "str" -> x.v # ""
    [] x.t = "list" -> x.v # << >>
    [] x.t = "dict" -> x.v # << >>

\* k in d
dict_has(d, k) == \E i \in 1..Len(d) : d[i].k = k

\* d[k]
dict_get(d, k) == d[CHOOSE i \in 1..Len(d) : d[i].k = k].v

\* d[k] = v: an existing key keeps its position, a new key goes last
dict_set(d, k, v) ==
  IF dict_has(d, k)
  THEN [i \in 1..Len(d) |-> IF d[i].k = k THEN Item(k, v) ELSE d[i]]
  ELSE Append(d, Item(k, v))

Result(ok, error, record) == [ok |-> ok, error |-> error, record |-> record]

(***************************************************************************)
(* csv_converter.py: the tabular importer                                  *)
(***************************************************************************)
\* a slip: only the empty cell counts as blank
is_blank_when_empty(value) == value = ""

\* not value or value.strip() == ''
is_blank(value) == value = "" \/ str_strip(value) = ""

\* a slip: the words are compared without lowering the value
convert_stripped_case_sensitive(value, field_name) ==
  IF str_lower(field_name) = "json_output"
  THEN IF value \in {"true", "1", "yes", "y"} THEN Bool(TRUE)
       ELSE IF value \in {"false", "0", "no", "n"} THEN Bool(FALSE)
       ELSE Str(value)
  ELSE Str(value)

\* lines 216-222, after the strip of line 213
convert_stripped(value, field_name) ==
  IF str_lower(field_name) = "json_output"
  THEN IF str_lower(value) \in {"true", "1", "yes", "y"} THEN Bool(TRUE)
       ELSE IF str_lower(value) \in {"false", "0", "no", "n"} THEN Bool(FALSE)
       ELSE Str(value)
  ELSE Str(value)

\* a slip: the cell is converted without being stripped
convert_value_unstripped(value, field_name) ==
  IF is_blank(value) THEN None
  ELSE convert_stripped(value, field_name)

convert_value(value, field_name) ==
  IF is_blank(value) THEN None
  ELSE convert_stripped(str_strip(value), field_name)

\* lines 254-261: character[section][field] = converted_value, the section
\* mapping being created on first use ("metadata" is stored the same way)
store_field(character, section, field, converted_value) ==
  LET mapping == IF dict_has(character, section)
                 THEN dict_get(character, section).v ELSE EmptyDict
  IN dict_set(character, section, Dict(dict_set(mapping, field, converted_value)))

\* lines 237-261: one pass of the loop over row.items()
RECURSIVE ImportCells(_, _, _)
ImportCells(character, row, i) ==
  IF i > Len(row) THEN character
  ELSE LET csv_column == row[i].k
           value == row[i].v
           found == find_matching_field(csv_column)
           converted_value == convert_value(value, found.field)
       IN ImportCells(
            IF is_blank(value) THEN character
            ELSE IF ~ found.found THEN character
            ELSE IF converted_value = None THEN character
            ELSE store_field(character, found.section, found.field, converted_value),
            row, i + 1)

csv_row_to_character(row) == Result(TRUE, None, ImportCells(EmptyDict, row, 1))

(***************************************************************************)
(* character_input.py: mandatory fields and section names                  *)
(***************************************************************************)
MANDATORY_FIELDS ==
  << [key |-> "name", description |-> "Character name"],
     [key |-> "ethnicity", description |-> "Character ethnicity"],
     [key |-> "sex/gender", description |-> "Character sex/gender"],
     [key |-> "age", description |-> "Character age"],
     [key |-> "occupation", description |-> "Character occupation"] >>

\* the keys of character_input.TEMPLATE_SECTIONS, in declaration order (the
\* validator iterates the keys only; the field lists are not consulted)
INPUT_TEMPLATE_SECTIONS ==
  << "High-Level Overview", "Demographics", "Physical Appearance", "History",
     "Psychological Traits", "Communication",
     "Strengths, Weaknesses, and Abilities", "Relationships",
     "Character Growth" >>

\* the literal list of line 235-238
RESERVED_TOP_LEVEL_KEYS ==
  { "metadata", "High-Level Overview", "Demographics", "Physical Appearance",
    "History", "Psychological Traits", "Communication",
    "Strengths, Weaknesses, and Abilities", "Relationships",
    "Character Growth" }

(***************************************************************************)
(* character_input.py: validate_character_input                            *)
(***************************************************************************)
\* a slip: the key is not lowercased
template_key_case_sensitive(key) == str_replace(key, "_", " ")

\* key.lower().replace('_', ' ')
template_key(key) == str_replace(str_lower(key), "_", " ")

\* lines 234-239: top-level keys that are neither metadata nor a section
RECURSIVE FlattenTopLevel(_, _, _)
FlattenTopLevel(flat_data, character_data, i) ==
  IF i > Len(character_data) THEN flat_data
  ELSE FlattenTopLevel(
         IF character_data[i].k \notin RESERVED_TOP_LEVEL_KEYS
         THEN dict_set(flat_data, character_data[i].k, character_data[i].v)
         ELSE flat_data,
         character_data, i + 1)

\* lines 244-245: hoist the items of one section mapping
RECURSIVE HoistItems(_, _, _)
HoistItems(flat_data, items, i) ==
  IF i > Len(items) THEN flat_data
  ELSE HoistItems(dict_set(flat_data, template_key(items[i].k), items[i].v),
                  items, i + 1)

\* lines 242-245
RECURSIVE FlattenSections(_, _, _)
FlattenSections(flat_data, character_data, s) ==
  IF s > Len(INPUT_TEMPLATE_SECTIONS) THEN flat_data
  ELSE LET section == INPUT_TEMPLATE_SECTIONS[s]
       IN FlattenSections(
            IF /\ dict_has(character_data, section)
               /\ isinstance_dict(dict_get(character_data, section))
            THEN HoistItems(flat_data, dict_get(character_data, section).v, 1)
            ELSE flat_data,
            character_data, s + 1)

\* lines 250-254: index of the first key of flat_data that matches, else 0
RECURSIVE FindMandatory(_, _, _)
FindMandatory(flat_data, mandatory_key, i) ==
  IF i > Len(flat_data) THEN 0
  ELSE IF template_key(flat_data[i].k) = str_lower(mandatory_key) THEN i
  ELSE FindMandatory(flat_data, mandatory_key, i + 1)

\* a slip: mandatory fields are not skipped in the section projection
is_mandatory_never(template_field) == FALSE

\* line 267: any(m.lower() == template_field for m in MANDATORY_FIELDS.keys())
is_mandatory(template_field) ==
  \E m \in 1..Len(MANDATORY_FIELDS) :
     str_lower(MANDATORY_FIELDS[m].key) = template_field

\* lines 264-268: the non-mandatory items of one section mapping
RECURSIVE SectionData(_, _, _)
SectionData(section_data, items, i) ==
  IF i > Len(items) THEN section_data
  ELSE LET template_field == template_key(items[i].k)
       IN SectionData(
            IF ~ is_mandatory(template_field)
            THEN dict_set(section_data, template_field, items[i].v)
            ELSE section_data,
            items, i + 1)

\* lines 260-271
RECURSIVE ProjectSections(_, _, _)
ProjectSections(normalized_data, character_data, s) ==
  IF s > Len(INPUT_TEMPLATE_SECTIONS) THEN normalized_data
  ELSE LET section == INPUT_TEMPLATE_SECTIONS[s]
           section_data ==
             IF /\ dict_has(character_data, section)
                /\ isinstance_dict(dict_get(character_data, section))
             THEN SectionData(EmptyDict, dict_get(character_data, section).v, 1)
             ELSE EmptyDict
       IN ProjectSections(
            IF section_data # EmptyDict
            THEN dict_set(normalized_data, section, Dict(section_data))
            ELSE normalized_data,
            character_data, s + 1)

\* a slip: the value is stored under the key as the input spelled it
store_mandatory_under_input_key(normalized_data, mandatory_key, flat_data, i) ==
  dict_set(normalized_data, flat_data[i].k, flat_data[i].v)

\* line 252: normalized[mandatory_key] = flat_data[key]
store_mandatory(normalized_data, mandatory_key, flat_data, i) ==
  dict_set(normalized_data, mandatory_key, flat_data[i].v)

\* a slip: json_output is copied without the bool() coercion
ExtractMetadata_uncoerced(normalized_data, character_data) ==
  LET meta == dict_get(character_data, "metadata")
      m1 == IF dict_has(meta.v, "new_doc_title")
            THEN dict_set(EmptyDict, "new_doc_title",
                          dict_get(meta.v, "new_doc_title"))
            ELSE EmptyDict
      m2 == IF dict_has(meta.v, "json_output")
            THEN dict_set(m1, "json_output", dict_get(meta.v, "json_output"))
            ELSE m1
      metadata == IF /\ dict_has(character_data, "metadata")
                     /\ isinstance_dict(meta)
                  THEN m2 ELSE EmptyDict
  IN IF metadata # EmptyDict
     THEN dict_set(normalized_data, "metadata", Dict(metadata))
     ELSE normalized_data

\* lines 274-284
ExtractMetadata(normalized_data, character_data) ==
  LET meta == dict_get(character_data, "metadata")
      m1 == IF dict_has(meta.v, "new_doc_title")
            THEN dict_set(EmptyDict, "new_doc_title",
                          dict_get(meta.v, "new_doc_title"))
            ELSE EmptyDict
      m2 == IF dict_has(meta.v, "json_output")
            THEN dict_set(m1, "json_output",
                          Bool(py_bool(dict_get(meta.v, "json_output"))))
            ELSE m1
      metadata == IF /\ dict_has(character_data, "metadata")
                     /\ isinstance_dict(meta)
                  THEN m2 ELSE EmptyDict
  IN IF metadata # EmptyDict
     THEN dict_set(normalized_data, "metadata", Dict(metadata))
     ELSE normalized_data

\* lines 248-286: the mandatory loop, then the projection and the metadata
RECURSIVE CheckMandatory(_, _, _, _)
CheckMandatory(normalized_data, flat_data, character_data, m) ==
  IF m > Len(MANDATORY_FIELDS)
  THEN Result(TRUE, None,
              ExtractMetadata(ProjectSections(normalized_data, character_data, 1),
                              character_data))
  ELSE LET i == FindMandatory(flat_data, MANDATORY_FIELDS[m].key, 1)
       IN IF i = 0
          THEN Result(FALSE,
                      Str("Missing mandatory field: "
                          \o MANDATORY_FIELDS[m].description),
                      EmptyDict)
          ELSE CheckMandatory(
                 store_mandatory(normalized_data, MANDATORY_FIELDS[m].key,
                                 flat_data, i),
                 flat_data, character_data, m + 1)

validate_character_input(character_data) ==
  LET flat_data ==
        FlattenSections(FlattenTopLevel(EmptyDict, character_data, 1),
                        character_data, 1)
  IN CheckMandatory(EmptyDict, flat_data, character_data, 1)

(***************************************************************************)
(* Inputs of the matcher: variants of the registered labels, the labels    *)
(* of test_csv_converter.py and short free labels                          *)
(***************************************************************************)
UpperTable ==
  [c \in {CharAt(LowerLetters, i) : i \in 1..26} |->
     CharAt(UpperLetters, CHOOSE i \in 1..26 : CharAt(LowerLetters, i) = c)]

UpperChar(c) == IF c \in DOMAIN UpperTable THEN UpperTable[c] ELSE c

RECURSIVE str_upper(_)
str_upper(s) ==
  IF s = "" THEN "" ELSE UpperChar(CharAt(s, 1)) \o str_upper(Tail(s))

Capitalized(s) == IF s = "" THEN "" ELSE UpperChar(CharAt(s, 1)) \o Tail(s)

RECURSIVE Spaces(_)
Spaces(n) == IF n = 0 THEN "" ELSE " " \o Spaces(n - 1)

Pads == {Spaces(n) : n \in 0..MaxPad} \cup {TAB}

CaseKinds == {"same", "upper", "capitalized"}

Recase(s, kind) ==
  CASE kind = "same" -> s
    [] kind = "upper" -> str_upper(s)
    [] kind = "capitalized" -> Capitalized(s)

Variant(L, kind, underscores, left, right) ==
  left \o (IF underscores THEN str_replace(Recase(L, kind), " ", "_")
                          ELSE Recase(L, kind)) \o right

FreeAlphabet == {"a", "B", " ", "_", TAB}

RECURSIVE FreeLabels(_)
FreeLabels(n) ==
  IF n = 0 THEN {""}
  ELSE LET shorter == FreeLabels(n - 1)
       IN shorter \cup {s \o c : s \in shorter, c \in FreeAlphabet}

TestLabels ==
  {"Name", "Sex/Gender", "Eye Color", "PERSONALITY TRAITS", "  spaces  ",
   "eye_color", "unknown field", "Not A Field"}

NoResult == [ok |-> FALSE, error |-> None, record |-> << >>]

IdleMatcher == label = "" /\ base = "" /\ normalized = "" /\ match = NoMatch
IdleValidator == input_object = << >> /\ result = NoResult
IdleImporter == source = "" /\ csv_row = << >> /\ csv_result = NoResult

\* csv_to_json has not been called
NoFile == [exists |-> FALSE, suffix |-> "", fault |-> [kind |-> "none", at |-> 0],
           lines |-> << >>]
NoConversion == [ok |-> FALSE, error |-> None, data |-> None, raised |-> FALSE]
IdleConverter ==
  /\ csv_file = NoFile
  /\ output_paths = {}
  /\ conversion = NoConversion
  /\ output_files = {}

\* validate_json_output has not been called
NoValidation == [ok |-> FALSE, data |-> None, error |-> ""]
IdleParser ==
  /\ response = ""
  /\ core = ""
  /\ validated = NoValidation
  /\ text_output = ""

\* the enhancer has not been called
NoArguments ==
  [base_character |-> "", species |-> "", character_class |-> "", level |-> 0,
   subclass |-> None, client |-> FALSE]
NotEnhanced == [kind |-> "none", value |-> ""]
IdleEnhancer ==
  /\ dnd_args = NoArguments
  /\ subclass_valid = FALSE
  /\ generator_calls = << >>
  /\ enhanced = NotEnhanced

\* main has not been started
NoCommandLine == [mode |-> "none"]
NoFileResult == [ok |-> FALSE, error |-> None, characters |-> << >>]
NoLocals ==
  [json_output_mode |-> FALSE, gemini_response |-> "", character_json |-> None,
   filled_content |-> "", doc_id |-> 0, species |-> None,
   character_class |-> None, level |-> None, subclass |-> None,
   enhanced_content |-> None]
IdleMain ==
  /\ argv = NoCommandLine
  /\ environment = FALSE
  /\ file_result = NoFileResult
  /\ character_args_list = << >>
  /\ char_idx = 0
  /\ locals = NoLocals
  /\ operations = << >>
  /\ exit_status = "not started"

\* no history file has been touched
NoFiles == << >>
IdleHistory ==
  /\ files = NoFiles
  /\ trackers = {}
  /\ answer = None
  /\ writes = << >>

\* no client has been constructed
NoClient == [project |-> "", location |-> "", model_name |-> "", _model |-> None]
NoVertex == [project |-> "", location |-> ""]
IdleClient ==
  /\ gemini_client = NoClient
  /\ vertexai = NoVertex
  /\ client_calls = << >>

IdlePipeline == IdleMatcher /\ IdleImporter /\ IdleValidator
IdleRest == IdleHistory /\ IdleClient
IdleOutsidePipeline ==
  IdleConverter /\ IdleParser /\ IdleEnhancer /\ IdleMain /\ IdleRest
IdleOutsideFile ==
  IdlePipeline /\ IdleParser /\ IdleEnhancer /\ IdleMain /\ IdleRest
IdleOutsideParser ==
  IdlePipeline /\ IdleConverter /\ IdleEnhancer /\ IdleMain /\ IdleRest
IdleOutsideEnhancer ==
  IdlePipeline /\ IdleConverter /\ IdleParser /\ IdleMain /\ IdleRest
IdleOutsideMain ==
  IdlePipeline /\ IdleConverter /\ IdleParser /\ IdleEnhancer /\ IdleRest
IdleOutsideHistory ==
  /\ IdlePipeline /\ IdleConverter /\ IdleParser /\ IdleEnhancer
  /\ IdleMain /\ IdleClient
IdleOutsideClient ==
  /\ IdlePipeline /\ IdleConverter /\ IdleParser /\ IdleEnhancer
  /\ IdleMain /\ IdleHistory

InitMatch ==
  /\ IdleOutsidePipeline
  /\ pc = "label"
  /\ normalized = ""
  /\ match = NoMatch
  /\ IdleImporter
  /\ IdleValidator
  /\ \/ \E L \in RegisteredLabels, kind \in CaseKinds, us \in BOOLEAN,
           left \in Pads, right \in Pads :
          /\ base = L
          /\ label = Variant(L, kind, us, left, right)
     \/ /\ base = ""
        /\ label \in FreeLabels(MaxLabelLen) \cup TestLabels

NormalizeFieldName ==
  /\ pc = "label"
  /\ normalized' = normalize_field_name(label)
  /\ pc' = "normalized"
  /\ UNCHANGED <<label, base, match, source, csv_row, csv_result, input_object, result>>
  /\ UNCHANGED notPipeline

FindMatchingField ==
  /\ pc = "normalized"
  /\ match' = find_matching_field(label)
  /\ pc' = "matched"
  /\ UNCHANGED <<label, base, normalized, source, csv_row, csv_result, input_object, result>>
  /\ UNCHANGED notPipeline

NextMatch == NormalizeFieldName \/ FindMatchingField

SpecMatch == InitMatch /\ [][NextMatch]_vars

(***************************************************************************)
(* Inputs of the validator: the plain object of the end-to-end scenario    *)
(* (the five mandatory keys at top level, nothing else) with up to         *)
(* MaxDeviations of its parts replaced by an alternative                   *)
(***************************************************************************)
BaseValue == << "Bram", "Human", "male", "adult", "blacksmith" >>
OtherValue == << "Zara", "Elf", "female", "elderly", "wizard" >>

\* one insertion into the object under construction: at top level when
\* sec = "", into the mapping of section sec otherwise
Ins(sec, k, v) == [sec |-> sec, k |-> k, v |-> v]

\* a mandatory field of the plain object: its canonical key at top level
PlainField(m) == << Ins("", MANDATORY_FIELDS[m].key, Str(BaseValue[m])) >>

\* a value that is not a string, one kind for each mandatory field
NonString ==
  << None,
     List(<< Str("Human"), Str("Elf") >>),
     Dict(<< Item("sex", Str("male")), Item("gender", Str("he/him")) >>),
     Num(30),
     Bool(FALSE) >>

\* the alternatives: absent; other letter case; nested in a section; at top
\* level and nested; in two sections; twice at top level; not a string
FieldAlternatives(m) ==
  LET K == MANDATORY_FIELDS[m].key
      V == Str(BaseValue[m])
      W == Str(OtherValue[m])
  IN << << >>,
        << Ins("", Capitalized(K), V) >>,
        << Ins("Demographics", K, V) >>,
        << Ins("Relationships", str_upper(K), V) >>,
        << Ins("", K, V), Ins("Demographics", K, W) >>,
        << Ins("", Capitalized(K), V), Ins("Demographics", K, W) >>,
        << Ins("History", Capitalized(K), W), Ins("Demographics", K, V) >>,
        << Ins("", Capitalized(K), V), Ins("", str_upper(K), W) >>,
        << Ins("", K, NonString[m]) >> >>

\* sections of the plain object: none
SectionAlternatives ==
  << << Ins("Demographics", "titles", Str("Sir")) >>,
     << Ins("Physical Appearance", "Eye_Color", Str("green")) >>,
     << Ins("", "History", Dict(EmptyDict)) >>,
     << Ins("", "Communication", Str("soft-spoken")) >>,
     << Ins("", "nickname", Str("B")) >>,
     << Ins("High-Level Overview", "summary", Str("a smith")) >>,
     << Ins("Psychological Traits", "Hobbies", Str("chess")),
        Ins("Psychological Traits", "hobbies", None),
        Ins("Character Growth", "goals", List(<< >>)) >> >>

\* metadata of the plain object: none
MetadataAlternatives ==
  << << Ins("", "metadata", Dict(EmptyDict)) >>,
     << Ins("metadata", "new_doc_title", Str("Bram the smith")) >>,
     << Ins("metadata", "json_output", Bool(TRUE)) >>,
     << Ins("metadata", "json_output", Str("false")) >>,
     << Ins("metadata", "json_output", Num(0)) >>,
     << Ins("metadata", "author", Str("me")) >>,
     << Ins("metadata", "new_doc_title", None),
        Ins("metadata", "JSON_Output", Bool(TRUE)),
        Ins("metadata", "json_output", None) >>,
     << Ins("", "metadata", Str("json_output")) >>,
     << Ins("metadata", "json_output", Str("maybe")),
        Ins("metadata", "author", Str("me")) >> >>

\* the parts of an object: the five mandatory fields, the sections, the metadata
Parts == 1..(Len(MANDATORY_FIELDS) + 2)
SectionPart == Len(MANDATORY_FIELDS) + 1
MetadataPart == Len(MANDATORY_FIELDS) + 2

Alternatives(part) ==
  IF part = SectionPart THEN SectionAlternatives
  ELSE IF part = MetadataPart THEN MetadataAlternatives
  ELSE FieldAlternatives(part)

\* the insertions of a part: alternative alt, or the plain part when alt = 0
PartsOf(part, alt) ==
  IF alt # 0 THEN Alternatives(part)[alt]
  ELSE IF part \in {SectionPart, MetadataPart} THEN << >>
  ELSE PlainField(part)

Insert(object, ins) ==
  IF ins.sec = "" THEN dict_set(object, ins.k, ins.v)
  ELSE LET mapping == IF dict_has(object, ins.sec)
                      THEN dict_get(object, ins.sec).v ELSE EmptyDict
       IN dict_set(object, ins.sec, Dict(dict_set(mapping, ins.k, ins.v)))

RECURSIVE InsertAll(_, _, _)
InsertAll(object, inss, i) ==
  IF i > Len(inss) THEN object
  ELSE InsertAll(Insert(object, inss[i]), inss, i + 1)

\* choice maps the deviating parts to their alternative, the others are plain
RECURSIVE BuildInput(_, _, _)
BuildInput(object, choice, part) ==
  IF part \notin Parts THEN object
  ELSE BuildInput(
         InsertAll(object,
                   PartsOf(part, IF part \in DOMAIN choice THEN choice[part] ELSE 0),
                   1),
         choice, part + 1)

\* the ways to replace at most n parts: the replaced parts mapped to the
\* number of their alternative
Deviations(n) == { X \in SUBSET Parts : Cardinality(X) <= n }
ObjectChoices(D) ==
  { c \in [D -> 1..Len(FieldAlternatives(1))] :
      \A part \in D : c[part] <= Len(Alternatives(part)) }

(***************************************************************************)
(* Inputs of the importer: the row of the end-to-end scenario with up to   *)
(* MaxRowDeviations of its parts replaced by an alternative, and the rows  *)
(* of the no-mandatory-column scenario                                     *)
(***************************************************************************)
BaseLabel == << "Name", "Ethnicity", "Sex/Gender", "Age", "Occupation" >>

\* a mandatory column of the plain row
PlainColumn(m) == << Item(BaseLabel[m], BaseValue[m]) >>

\* the alternatives: no such column; empty cell; whitespace cell; padded
\* cell; padded upper-case label; two matching columns
ColumnAlternatives(m) ==
  LET L == BaseLabel[m]
      V == BaseValue[m]
      W == OtherValue[m]
  IN << << >>,
        << Item(L, "") >>,
        << Item(L, "  " \o TAB) >>,
        << Item(L, " " \o V \o TAB) >>,
        << Item(" " \o str_upper(L) \o " ", V) >>,
        << Item(L, V), Item(str_lower(L), " " \o W) >>,
        << Item(L, V), Item(str_upper(L), " ") >> >>

\* further columns of the plain row: none
ExtraColumnAlternatives ==
  << << Item("Not A Field", "x") >>,
     << Item("Eye Color", "green") >>,
     << Item("eye_color", " green "), Item("EYE COLOR", "blue") >>,
     << Item("Other Notes", "shy"), Item("Enemies", "orcs") >>,
     << Item("Titles", ""), Item("Disabilities", " ") >>,
     << Item("u1", "1"), Item("u2", "2"), Item("u3", "3"),
        Item("u4", "4"), Item("u5", "5"), Item("u6", "6") >>,
     << Item("Hobbies", "chess"), Item("High-Level Overview", "x"),
        Item("Demographics", "y") >> >>

\* metadata columns of the plain row: none
MetadataColumnAlternatives ==
  << << Item("new_doc_title", "Bram the smith") >>,
     << Item("JSON_Output", "TRUE") >>,
     << Item("json output", " no ") >>,
     << Item("json_output", "maybe") >>,
     << Item("json_output", " "), Item("New Doc Title", "") >>,
     << Item("New Doc Title", "true") >>,
     << Item("json_output", "0"), Item("metadata", "1") >> >>

RowAlternatives(part) ==
  IF part = SectionPart THEN ExtraColumnAlternatives
  ELSE IF part = MetadataPart THEN MetadataColumnAlternatives
  ELSE ColumnAlternatives(part)

\* the columns of a part: alternative alt, or the plain part when alt = 0
RowPartsOf(part, alt) ==
  IF alt # 0 THEN RowAlternatives(part)[alt]
  ELSE IF part \in {SectionPart, MetadataPart} THEN << >>
  ELSE PlainColumn(part)

RECURSIVE BuildRow(_, _, _)
BuildRow(row, choice, part) ==
  IF part \notin Parts THEN row
  ELSE BuildRow(
         row \o RowPartsOf(part, IF part \in DOMAIN choice THEN choice[part] ELSE 0),
         choice, part + 1)

ScenarioRows == { << Item("Not A Field", "x") >>, << >> }

RowChoices(D) ==
  { c \in [D -> 1..Len(ColumnAlternatives(1))] :
      \A part \in D : c[part] <= Len(RowAlternatives(part)) }

(***************************************************************************)
(* The input pipeline: a tabular row goes through the importer and its     *)
(* character through the validator; a native JSON/JSONL object goes to     *)
(* the validator directly                                                  *)
(***************************************************************************)
Init ==
  /\ IdleOutsidePipeline
  /\ IdleMatcher
  /\ csv_result = NoResult
  /\ result = NoResult
  /\ \/ /\ source = "row"
        /\ pc = "row"
        /\ \/ csv_row \in ScenarioRows
           \/ \E D \in Deviations(MaxRowDeviations) : \E choice \in RowChoices(D) :
                csv_row = BuildRow(<< >>, choice, 1)
        /\ input_object = << >>
     \/ /\ source = "object"
        /\ pc = "object"
        /\ csv_row = << >>
        /\ \E D \in Deviations(MaxDeviations) : \E choice \in ObjectChoices(D) :
             input_object = BuildInput(EmptyDict, choice, 1)

\* csv_row_to_character(row); the character is what the validator is given
CsvRowToCharacter ==
  /\ pc = "row"
  /\ csv_result' = csv_row_to_character(csv_row)
  /\ input_object' = csv_result'.record
  /\ pc' = "object"
  /\ UNCHANGED <<label, base, normalized, match, source, csv_row, result>>
  /\ UNCHANGED notPipeline

\* validate_character_input(character_data)
Validate ==
  /\ pc = "object"
  /\ result' = validate_character_input(input_object)
  /\ pc' = "validated"
  /\ UNCHANGED <<label, base, normalized, match, source, csv_row, csv_result,
               input_object>>
  /\ UNCHANGED notPipeline

Next == CsvRowToCharacter \/ Validate

Spec == Init /\ [][Next]_vars

(***************************************************************************)
(* Vocabulary of the properties                                            *)
(***************************************************************************)
MandatoryIndex == 1..Len(MANDATORY_FIELDS)
MandatoryKey(m) == MANDATORY_FIELDS[m].key
MandatoryKeys == {MandatoryKey(m) : m \in MandatoryIndex}
SectionNames == {INPUT_TEMPLATE_SECTIONS[s] : s \in 1..Len(INPUT_TEMPLATE_SECTIONS)}

Keys(d) == {d[i].k : i \in 1..Len(d)}

\* the key spells the mandatory field m, in whatever letter case
Spells(key, m) == str_lower(key) = MandatoryKey(m)

\* the sections the object carries as a mapping
SectionMappings(object) ==
  {sec \in SectionNames :
     dict_has(object, sec) /\ isinstance_dict(dict_get(object, sec))}

\* the values the object supplies for the mandatory field m at top level
TopLevelValues(object, m) ==
  {object[i].v : i \in {j \in 1..Len(object) :
                          /\ object[j].k \notin SectionNames \cup {"metadata"}
                          /\ Spells(object[j].k, m)}}

\* the values the object supplies for the mandatory field m inside section sec
NestedValues(object, sec, m) ==
  LET items == dict_get(object, sec).v
  IN {items[i].v : i \in {j \in 1..Len(items) : Spells(items[j].k, m)}}

SuppliedValues(object, m) ==
  TopLevelValues(object, m) \cup
  UNION {NestedValues(object, sec, m) : sec \in SectionMappings(object)}

\* the mandatory fields the object supplies nowhere
MissingFields(object) == {m \in MandatoryIndex : SuppliedValues(object, m) = {}}

Least(S) == CHOOSE m \in S : \A n \in S : m <= n

MissingError(m) ==
  Str("Missing mandatory field: " \o MANDATORY_FIELDS[m].description)

\* the cells of the row whose label matches the mandatory field m and that
\* hold a value
CoveringCells(row, m) ==
  {i \in 1..Len(row) :
     /\ find_matching_field(row[i].k) = Match("Demographics", MandatoryKey(m))
     /\ str_strip(row[i].v) # ""}

UncoveredFields(row) == {m \in MandatoryIndex : CoveringCells(row, m) = {}}

PlainObject == BuildInput(EmptyDict, << >>, 1)
PlainRow == BuildRow(<< >>, << >>, 1)

(***************************************************************************)
(* Properties of the record validator                                      *)
(***************************************************************************)
\* C1: whenever the validator returns ok, the canonical record has the five
\* mandatory keys at top level in their canonical lowercase form, each
\* holding a value the input supplied for that field, at top level or
\* inside a section mapping and in whatever letter case
C1_MandatoryAtTopLevel ==
  pc = "validated" /\ result.ok =>
    \A m \in MandatoryIndex :
      /\ dict_has(result.record, MandatoryKey(m))
      /\ dict_get(result.record, MandatoryKey(m)) \in SuppliedValues(input_object, m)

\* an accepted object with one field only inside a section and another at
\* top level under a key that is not in canonical case
C1_Witness ==
  /\ pc = "validated" /\ result.ok /\ source = "object"
  /\ \E m \in MandatoryIndex :
       TopLevelValues(input_object, m) = {} /\ SuppliedValues(input_object, m) # {}
  /\ \E m \in MandatoryIndex :
       /\ ~ dict_has(input_object, MandatoryKey(m))
       /\ TopLevelValues(input_object, m) # {}

\* C2: the validator fails exactly when a mandatory field is supplied neither
\* at top level nor in a section mapping; it then returns (false, "Missing
\* mandatory field: <description of the first missing field>", empty
\* record); a row failing to cover a mandatory field fails naming the first
\* uncovered field, and a row with only unmatched columns names the name
C2_MissingMandatory ==
  pc = "validated" =>
    /\ MissingFields(input_object) = {} => result.ok /\ result.error = None
    /\ MissingFields(input_object) # {} =>
         result = Result(FALSE, MissingError(Least(MissingFields(input_object))),
                         EmptyDict)
    /\ source = "row" /\ UncoveredFields(csv_row) # {} =>
         result = Result(FALSE, MissingError(Least(UncoveredFields(csv_row))),
                         EmptyDict)
    /\ source = "row" /\ csv_row # << >>
         /\ (\A i \in 1..Len(csv_row) : ~ find_matching_field(csv_row[i].k).found) =>
         result = Result(FALSE, MissingError(1), EmptyDict)

\* a row lacking two mandatory columns, the first of them not the name
C2_Witness ==
  /\ pc = "validated" /\ source = "row" /\ ~ result.ok
  /\ Cardinality(MissingFields(input_object)) = 2
  /\ 1 \notin MissingFields(input_object)
  /\ result.error = MissingError(Least(UncoveredFields(csv_row)))

\* C4: an accepted record has no empty section mapping and no mandatory
\* field inside a section block; a section key is present only if that
\* section of the input contributed a non-mandatory field; the plain input
\* of five mandatory fields yields exactly those five top-level keys
C4_NoEmptySection ==
  pc = "validated" /\ result.ok =>
    /\ Keys(result.record) \subseteq MandatoryKeys \cup SectionNames \cup {"metadata"}
    /\ \A sec \in SectionNames \cap Keys(result.record) :
         LET block == dict_get(result.record, sec)
         IN /\ isinstance_dict(block)
            /\ block.v # EmptyDict
            /\ \A m \in MandatoryIndex, k \in Keys(block.v) : ~ Spells(k, m)
            /\ sec \in SectionMappings(input_object)
            /\ \E k \in Keys(dict_get(input_object, sec).v) :
                 \A m \in MandatoryIndex : ~ Spells(k, m)
    /\ input_object = PlainObject =>
         Keys(result.record) = MandatoryKeys /\ Len(result.record) = 5

\* an accepted object with a section that holds mandatory fields only (it
\* is left out) and a section that holds an optional field (it is kept)
C4_Witness ==
  /\ pc = "validated" /\ result.ok
  /\ \E sec \in SectionMappings(input_object) :
       /\ dict_get(input_object, sec).v # EmptyDict
       /\ ~ dict_has(result.record, sec)
  /\ \E sec \in SectionMappings(input_object) : dict_has(result.record, sec)

\* C5: in every accepted record each of the five mandatory values is a
\* scalar string
C5_MandatoryAreStrings ==
  pc = "validated" /\ result.ok =>
    \A m \in MandatoryIndex :
      /\ dict_has(result.record, MandatoryKey(m))
      /\ dict_get(result.record, MandatoryKey(m)).t = "str"

\* C6: the metadata block of a canonical record holds no key but
\* new_doc_title and json_output, json_output is a boolean, and the block is
\* absent when the input has no metadata mapping or one with unrecognised
\* keys only
C6_MetadataBlock ==
  pc = "validated" =>
    /\ dict_has(result.record, "metadata") =>
         LET block == dict_get(result.record, "metadata")
         IN /\ isinstance_dict(block)
            /\ Keys(block.v) \subseteq {"new_doc_title", "json_output"}
            /\ dict_has(block.v, "json_output") =>
                 dict_get(block.v, "json_output").t = "bool"
    /\ \/ ~ dict_has(input_object, "metadata")
       \/ ~ isinstance_dict(dict_get(input_object, "metadata"))
       \/ Keys(dict_get(input_object, "metadata").v)
            \cap {"new_doc_title", "json_output"} = {}
       => ~ dict_has(result.record, "metadata")

\* an accepted object whose metadata mapping has an unrecognised key and a
\* json_output that is not a boolean
C6_Witness ==
  /\ pc = "validated" /\ result.ok
  /\ dict_has(input_object, "metadata")
  /\ isinstance_dict(dict_get(input_object, "metadata"))
  /\ dict_has(dict_get(input_object, "metadata").v, "author")
  /\ dict_has(dict_get(input_object, "metadata").v, "json_output")
  /\ dict_get(dict_get(input_object, "metadata").v, "json_output").t = "str"
  /\ dict_has(result.record, "metadata")
(***************************************************************************)
(* Properties of the tabular importer                                      *)
(***************************************************************************)
\* C3: a row that covers each mandatory field by a matching column holding
\* a value is accepted by the validator after import, whatever other
\* columns it has, and the five top-level values are the trimmed values of
\* covering cells
C3_CoveredRowAccepted ==
  pc = "validated" /\ source = "row" /\ UncoveredFields(csv_row) = {} =>
    /\ result.ok
    /\ \A m \in MandatoryIndex :
         /\ dict_has(result.record, MandatoryKey(m))
         /\ dict_get(result.record, MandatoryKey(m)) \in
              {Str(str_strip(csv_row[i].v)) : i \in CoveringCells(csv_row, m)}

\* an accepted row with an unmatched column, a padded cell and a label that
\* is not in canonical form
C3_Witness ==
  /\ pc = "validated" /\ source = "row" /\ result.ok
  /\ UncoveredFields(csv_row) = {}
  /\ \E i \in 1..Len(csv_row) : ~ find_matching_field(csv_row[i].k).found
  /\ \E m \in MandatoryIndex : \E i \in CoveringCells(csv_row, m) :
       /\ csv_row[i].v # str_strip(csv_row[i].v)
       /\ dict_get(result.record, MandatoryKey(m)) = Str(str_strip(csv_row[i].v))

\* the fields of the character, as (section, field, value) triples
CharacterFields(character) ==
  UNION {{<<character[s].k, character[s].v.v[i].k, character[s].v.v[i].v>> :
            i \in 1..Len(character[s].v.v)} : s \in 1..Len(character)}

\* C10: the importer always returns ok with no error; a field is in its
\* output only if a cell with a non-blank value has a label matching that
\* field; blank cells and unmatched labels produce no key; no value is null
C10_ImporterNeverFails ==
  source = "row" /\ pc # "row" =>
    /\ csv_result.ok /\ csv_result.error = None
    /\ \A s \in 1..Len(csv_result.record) :
         /\ isinstance_dict(csv_result.record[s].v)
         /\ csv_result.record[s].v.v # EmptyDict
    /\ \A f \in CharacterFields(csv_result.record) :
         /\ f[3] # None
         /\ \E i \in 1..Len(csv_row) :
              /\ str_strip(csv_row[i].v) # ""
              /\ find_matching_field(csv_row[i].k) = Match(f[1], f[2])

\* a row with a whitespace-only cell under a matching label, an unmatched
\* label and a json_output cell that converts to false
C10_Witness ==
  /\ source = "row" /\ pc = "object"
  /\ \E i \in 1..Len(csv_row) :
       /\ find_matching_field(csv_row[i].k).found
       /\ csv_row[i].v # "" /\ str_strip(csv_row[i].v) = ""
  /\ <<"metadata", "json_output", Bool(FALSE)>> \in CharacterFields(csv_result.record)
(***************************************************************************)
(* Properties of the field matcher                                         *)
(***************************************************************************)
\* two labels name the same field when they are equal up to letter case,
\* surrounding whitespace and the choice between space and underscore
Canonical(l) == str_replace(str_lower(str_strip(l)), "_", " ")
CanonicalRegistered == {Canonical(f) : f \in RegisteredLabels}

\* C7: a variant of a registered label L obtained by changing letter case,
\* replacing spaces by underscores or adding leading or trailing
\* whitespace is matched to the same (section, field) pair as L; a label
\* that names no registered field is matched to none
C7_CaseSpacingInvariance ==
  pc = "matched" =>
    /\ base # "" => match.found /\ match = find_matching_field(base)
    /\ Canonical(label) \notin CanonicalRegistered => match = NoMatch

\* the label " EYE_COLOR<tab>" is matched as "eye color" is
C7_Witness ==
  /\ pc = "matched"
  /\ base = "eye color"
  /\ label = " EYE_COLOR" \o TAB
  /\ match = Match("Physical Appearance", "eye color")

\* the sections that list the field, by position in the declaration
SectionsListing(f) ==
  {s \in 1..Len(TEMPLATE_SECTIONS) :
     \E i \in 1..Len(TEMPLATE_SECTIONS[s].fields) : TEMPLATE_SECTIONS[s].fields[i] = f}

\* C8: the matcher returns the first match in scan order: a metadata field
\* gives ("metadata", field); a taxonomy field f gives (S, f) with S the
\* earliest-declared section that lists f
C8_FirstMatchWins ==
  pc = "matched" /\ base # "" =>
    IF \E i \in 1..Len(METADATA_FIELDS) : METADATA_FIELDS[i] = base
    THEN match = Match("metadata", base)
    ELSE match = Match(TEMPLATE_SECTIONS[Least(SectionsListing(base))].section, base)

\* a variant of "enemies", listed under History and under Relationships
C8_Witness ==
  /\ pc = "matched"
  /\ base = "enemies" /\ label # base
  /\ Cardinality(SectionsListing(base)) = 2
  /\ match = Match("History", "enemies")

\* the label lowercased and trimmed, every run of internal whitespace
\* replaced by one underscore
RECURSIVE CollapseWhitespace(_, _)
CollapseWhitespace(s, i) ==
  IF i > Len(s) THEN ""
  ELSE IF CharAt(s, i) \in Whitespace
       THEN (IF i > 1 /\ CharAt(s, i - 1) \in Whitespace THEN "" ELSE "_")
            \o CollapseWhitespace(s, i + 1)
       ELSE LowerChar(CharAt(s, i)) \o CollapseWhitespace(s, i + 1)

\* C9 as stated: normalize_field_name lowercases the label, trims it and
\* replaces internal whitespace with a single underscore
C9_SingleUnderscore ==
  pc = "normalized" => normalized = CollapseWhitespace(str_strip(label), 1)

\* C9 as amended: normalize_field_name lowercases the label, trims it and
\* replaces each space that remains by one underscore, any other
\* character unchanged, so the result is as long as the trimmed label
C9_UnderscorePerSpace ==
  pc = "normalized" =>
    LET trimmed == str_strip(label)
    IN /\ Len(normalized) = Len(trimmed)
       /\ \A i \in 1..Len(trimmed) :
            CharAt(normalized, i) =
              IF CharAt(trimmed, i) = " " THEN "_" ELSE LowerChar(CharAt(trimmed, i))
       /\ label = "Eye Color" => normalized = "eye_color"
       /\ label = "  spaces  " => normalized = "spaces"
       /\ label = "PERSONALITY TRAITS" => normalized = "personality_traits"

\* a label with two adjacent internal spaces: two underscores
C9_Witness ==
  /\ pc = "normalized"
  /\ label = "a  B"
  /\ normalized = "a__b"

(***************************************************************************)
(* Cell conversion: rows of one or two cells, the last one drawn from the  *)
(* boolean words in every letter case, padded, and from near misses        *)
(***************************************************************************)
TrueWords == {"true", "1", "yes", "y"}
FalseWords == {"false", "0", "no", "n"}

\* every spelling of a word up to letter case
RECURSIVE CaseVariants(_)
CaseVariants(s) ==
  IF s = "" THEN {""}
  ELSE {c \o r : c \in {LowerChar(CharAt(s, 1)), UpperChar(CharAt(s, 1))},
                 r \in CaseVariants(Tail(s))}

TrueSpellings == UNION {CaseVariants(w) : w \in TrueWords}
FalseSpellings == UNION {CaseVariants(w) : w \in FalseWords}

NearMisses ==
  {"", " ", TAB, "maybe", "t", "f", "on", "off", "2", "10", "yes!", "ye s",
   "true false", "nope", "truee", "-1", "T RUE"}

CellTexts ==
  {left \o w \o right : w \in TrueSpellings \cup FalseSpellings,
                        left \in Pads, right \in Pads}
    \cup NearMisses \cup {" " \o w \o TAB : w \in NearMisses}

CellLabels ==
  {"json_output", "JSON_OUTPUT", " Json Output ", "json output",
   "New Doc Title", "Name", "Eye Color", "Not A Field", "jsonoutput"}

CellPrefixes ==
  {<< >>, << Item("json_output", "true") >>, << Item("JSON Output", "No") >>}

InitCells ==
  /\ IdleOutsidePipeline
  /\ IdleMatcher
  /\ csv_result = NoResult
  /\ result = NoResult
  /\ source = "row"
  /\ pc = "row"
  /\ input_object = << >>
  /\ \E prefix \in CellPrefixes, l \in CellLabels, v \in CellTexts :
       csv_row = prefix \o << Item(l, v) >>

SpecCells == InitCells /\ [][Next]_vars

\* the non-blank cells of the row whose label matches json_output
JsonOutputCells(row) ==
  {i \in 1..Len(row) :
     /\ find_matching_field(row[i].k) = Match("metadata", "json_output")
     /\ str_strip(row[i].v) # ""}

Greatest(S) == CHOOSE x \in S : \A y \in S : y <= x

\* what the importer is to store for a json_output cell
JsonOutputValue(text) ==
  IF str_strip(text) \in TrueSpellings THEN Bool(TRUE)
  ELSE IF str_strip(text) \in FalseSpellings THEN Bool(FALSE)
  ELSE Str(str_strip(text))

\* C11: a non-blank cell matching json_output is stored as true for
\* true/1/yes/y and as false for false/0/no/n in any letter case (false is
\* stored, not dropped), and as its trimmed text otherwise; the stored value
\* is that of the last such cell; every other stored field is a string
C11_JsonOutputCoercion ==
  source = "row" /\ pc # "row" =>
    /\ JsonOutputCells(csv_row) # {} =>
         <<"metadata", "json_output",
           JsonOutputValue(csv_row[Greatest(JsonOutputCells(csv_row))].v)>>
             \in CharacterFields(csv_result.record)
    /\ \A f \in CharacterFields(csv_result.record) :
         <<f[1], f[2]>> # <<"metadata", "json_output">> => f[3].t = "str"

\* a padded, mixed-case "fAlSe" after a cell that said true is stored as
\* false
C11_Witness ==
  /\ source = "row" /\ pc = "object" /\ Len(csv_row) = 2
  /\ csv_row[1] = Item("json_output", "true")
  /\ csv_row[2] = Item(" Json Output ", " fAlSe" \o TAB)
  /\ CharacterFields(csv_result.record) = {<<"metadata", "json_output", Bool(FALSE)>>}

(***************************************************************************)
(* csv_to_json: the file is read with csv.DictReader, every data row is    *)
(* given to csv_row_to_character, and the characters are returned and      *)
(* written                                                                 *)
(***************************************************************************)
Failure(error) ==
  [ok |-> FALSE, error |-> Str(error), data |-> None, raised |-> FALSE]
Success(data) ==
  [ok |-> TRUE, error |-> None, data |-> data, raised |-> FALSE]
Raised(exception) ==
  [ok |-> FALSE, error |-> Str(exception), data |-> None, raised |-> TRUE]

\* a slip: only csv.Error is caught
except_clauses_csv_only(exception) ==
  IF exception = "csv.Error" THEN Failure("CSV parsing error")
  ELSE Raised(exception)

\* the except clauses of the try block
except_clauses(exception) ==
  CASE exception = "csv.Error" -> Failure("CSV parsing error")
    [] exception = "json.JSONDecodeError" -> Failure("JSON encoding error")
    [] OTHER -> Failure("Unexpected error")

\* reader.fieldnames: the first line of the file, none for a file
\* without lines; "not reader.fieldnames" is also true of a blank first line
no_fieldnames(lines) == Len(lines) = 0 \/ lines[1] = << >>

\* DictReader: dict(zip(fieldnames, row)), the cells a short row lacks being
\* None; None is skipped at line 238 as the empty string is ("not value"),
\* and it is written "" here
RECURSIVE DictRow(_, _, _, _)
DictRow(d, fieldnames, cells, i) ==
  IF i > Len(fieldnames) THEN d
  ELSE DictRow(dict_set(d, fieldnames[i],
                        IF i <= Len(cells) THEN cells[i] ELSE ""),
               fieldnames, cells, i + 1)

\* DictReader stores the cells beyond the header as a list under the key
\* None; value.strip() at line 238 raises AttributeError on that list
has_restkey(fieldnames, cells) == Len(cells) > Len(fieldnames)

\* a slip: every character is kept, the empty one too
append_character_always(characters, character) == Append(characters, character)

\* lines 325-328: if character: characters.append(character)
append_character(characters, character) ==
  IF character # EmptyDict THEN Append(characters, character) ELSE characters

\* the loop over the reader (lines 317-328), from line i of the file on: a
\* blank line is skipped by DictReader, a line that cannot be read raises
RECURSIVE ReadRows(_, _, _)
ReadRows(characters, file, i) ==
  IF i > Len(file.lines) THEN [raised |-> "", characters |-> characters]
  ELSE IF file.fault.at = i THEN [raised |-> file.fault.kind, characters |-> characters]
  ELSE IF file.lines[i] = << >> THEN ReadRows(characters, file, i + 1)
  ELSE IF has_restkey(file.lines[1], file.lines[i])
       THEN [raised |-> "AttributeError", characters |-> characters]
  ELSE LET row == DictRow(EmptyDict, file.lines[1], file.lines[i], 1)
           converted == csv_row_to_character(row)
       IN IF ~ converted.ok
          THEN [raised |-> "invalid row", characters |-> characters]
          ELSE ReadRows(append_character(characters, converted.record), file, i + 1)

DictList(characters) == List([i \in 1..Len(characters) |-> Dict(characters[i])])

\* lines 337-373: what is returned and what is written
SaveOutput(characters, paths) ==
  IF "json" \in paths
  THEN LET data == IF Len(characters) = 1 THEN Dict(characters[1])
                   ELSE DictList(characters)
       IN [ret |-> Success(data),
           written |-> {[path |-> "json", content |-> data]}]
  ELSE IF "jsonl" \in paths
  THEN [ret |-> Success(DictList(characters)),
        written |-> {[path |-> "jsonl", content |-> DictList(characters)]}]
  ELSE [ret |-> Success(IF Len(characters) = 1 THEN Dict(characters[1])
                        ELSE DictList(characters)),
        written |-> {}]

csv_to_json(file, paths) ==
  LET Fails(ret) == [ret |-> ret, written |-> {}]
  IN IF ~ file.exists THEN Fails(Failure("CSV file not found"))
     ELSE IF str_lower(file.suffix) # ".csv" THEN Fails(Failure("File is not a CSV"))
     ELSE IF file.fault.kind = "OSError" THEN Fails(except_clauses("OSError"))
     ELSE IF file.fault.at = 1 /\ Len(file.lines) >= 1
          THEN Fails(except_clauses(file.fault.kind))
     ELSE IF no_fieldnames(file.lines)
          THEN Fails(Failure("CSV file is empty or has no header row"))
     ELSE LET read == ReadRows(<< >>, file, 2)
          IN IF read.raised = "invalid row" THEN Fails(Failure("Row validation failed"))
             ELSE IF read.raised # "" THEN Fails(except_clauses(read.raised))
             ELSE IF read.characters = << >>
                  THEN Fails(Failure("No valid character data found in CSV"))
             ELSE SaveOutput(read.characters, paths)

(***************************************************************************)
(* Files given to csv_to_json: a header of three columns, the last one     *)
(* matching no field, and up to MaxRows lines                              *)
(***************************************************************************)
MaxRows == 3

Header == << "Name", "Eye Color", "Shoe Size" >>

\* a full line, a line with one cell filled, a line of blank cells, a line
\* filled under the unmatched column only, a short line, a long line, a
\* blank line
LineKinds ==
  { << "Bram", "green", "9" >>, << " Ada ", "", "" >>, << "", "  ", "" >>,
    << "", "", "9" >>, << "Cy" >>, << "Dee", "blue", "7", "extra" >>, << >> }

RECURSIVE LineSeqs(_)
LineSeqs(n) ==
  IF n = 0 THEN {<< >>}
  ELSE LET shorter == LineSeqs(n - 1)
       IN shorter \cup {Append(ls, l) : ls \in shorter, l \in LineKinds}

Contents ==
  {<< Header >> \o ls : ls \in LineSeqs(MaxRows)}
    \cup {<< >>, << << >>, << "Bram", "green", "9" >> >>}

NoFault == [kind |-> "none", at |-> 0]

\* the file as the file system presents it and the output paths given:
\* readable files with a .csv suffix; a missing file; other suffixes; a file
\* that cannot be opened; a line that cannot be decoded or parsed
Environments ==
  {[exists |-> TRUE, suffix |-> ".csv", fault |-> NoFault, paths |-> ps] :
     ps \in SUBSET {"json", "jsonl"}}
  \cup {[exists |-> TRUE, suffix |-> ".CSV", fault |-> NoFault, paths |-> {}]}
  \cup {[exists |-> FALSE, suffix |-> ".csv", fault |-> NoFault, paths |-> {"json"}]}
  \cup {[exists |-> TRUE, suffix |-> sfx, fault |-> NoFault, paths |-> {"json"}] :
          sfx \in {".txt", "", ".csvx", ".json"}}
  \cup {[exists |-> TRUE, suffix |-> ".csv", fault |-> [kind |-> "OSError", at |-> 0],
         paths |-> {"jsonl"}]}
  \cup {[exists |-> TRUE, suffix |-> ".csv",
         fault |-> [kind |-> "UnicodeDecodeError", at |-> k], paths |-> {"json"}] :
          k \in 1..(MaxRows + 1)}
  \cup {[exists |-> TRUE, suffix |-> ".csv", fault |-> [kind |-> "csv.Error", at |-> 2],
         paths |-> {"json"}]}

InitFile ==
  /\ IdleOutsideFile
  /\ pc = "file"
  /\ conversion = NoConversion
  /\ output_files = {}
  /\ \E env \in Environments, lines \in Contents :
       /\ csv_file = [exists |-> env.exists, suffix |-> env.suffix,
                      fault |-> env.fault, lines |-> lines]
       /\ output_paths = env.paths

CsvToJson ==
  /\ pc = "file"
  /\ LET done == csv_to_json(csv_file, output_paths)
     IN /\ conversion' = done.ret
        /\ output_files' = done.written
  /\ pc' = "converted"
  /\ UNCHANGED <<csv_file, output_paths>>
  /\ UNCHANGED notFile

NextFile == CsvToJson

SpecFile == InitFile /\ [][NextFile]_vars

(***************************************************************************)
(* Properties of csv_to_json                                               *)
(***************************************************************************)
\* the data rows of the file: its lines after the header, blank lines aside
DataRows(file) == SelectSeq(Tail(file.lines), LAMBDA l : l # << >>)

\* the character of a data row
RowCharacter(file, cells) ==
  csv_row_to_character(DictRow(EmptyDict, file.lines[1], cells, 1)).record

\* the records of a successful conversion: the list, or the one record
Records(data) == IF data.t = "list" THEN data.v ELSE << data >>

\* a data row yields character data when one of its cells is not blank and
\* stands under a label that matches a field
Yields(file, cells) ==
  \E j \in 1..Len(file.lines[1]) :
    /\ j <= Len(cells)
    /\ str_strip(cells[j]) # ""
    /\ find_matching_field(file.lines[1][j]).found

\* C12 as stated: a successful conversion has one record per data row, the
\* i-th record built from the i-th data row
C12_OneRecordPerRow ==
  pc = "converted" /\ conversion.ok =>
    LET rows == DataRows(csv_file)
    IN Records(conversion.data) =
         [i \in 1..Len(rows) |-> Dict(RowCharacter(csv_file, rows[i]))]

\* C12 amended: a successful conversion has one record per data row that
\* yields character data, built from that row, in row order; the rows that
\* yield none are left out
C12_OneRecordPerYieldingRow ==
  pc = "converted" /\ conversion.ok =>
    LET rows == SelectSeq(DataRows(csv_file), LAMBDA l : Yields(csv_file, l))
    IN /\ rows # << >>
       /\ Records(conversion.data) =
            [i \in 1..Len(rows) |-> Dict(RowCharacter(csv_file, rows[i]))]

\* three data rows, the second of blank cells: two records, of rows 1 and 3
C12_Witness ==
  /\ pc = "converted" /\ conversion.ok
  /\ Len(csv_file.lines) = 4
  /\ csv_file.lines[2] = << "Bram", "green", "9" >>
  /\ csv_file.lines[3] = << "", "  ", "" >>
  /\ csv_file.lines[4] = << " Ada ", "", "" >>
  /\ Len(Records(conversion.data)) = 2
  /\ Records(conversion.data)[2] =
       Dict(<< Item("Demographics", Dict(<< Item("name", Str("Ada")) >>)) >>)

\* the file cannot be opened or decoded
Unreadable(file) ==
  \/ file.fault.kind = "OSError"
  \/ file.fault.kind # "none" /\ file.fault.at \in 1..Len(file.lines)

\* C13: csv_to_json returns (false, message, none), writes no file and
\* raises nothing when the file does not exist, its suffix is not .csv in
\* any letter case, the header row is absent, no data row yields character
\* data, or the file cannot be opened or decoded
C13_FailureCases ==
  /\ pc = "converted"
  /\ \/ ~ csv_file.exists
     \/ csv_file.suffix \notin CaseVariants(".csv")
     \/ csv_file.lines = << >>
     \/ \A i \in 1..Len(DataRows(csv_file)) :
          ~ Yields(csv_file, DataRows(csv_file)[i])
     \/ Unreadable(csv_file)
  => /\ ~ conversion.raised
     /\ ~ conversion.ok
     /\ conversion.error.t = "str" /\ conversion.error.v # ""
     /\ conversion.data = None
     /\ output_files = {}

\* a file of valid rows whose suffix is .txt, an output path being given
C13_Witness ==
  /\ pc = "converted"
  /\ csv_file.exists /\ csv_file.suffix = ".txt" /\ csv_file.fault = NoFault
  /\ csv_file.lines = << Header, << "Bram", "green", "9" >> >>
  /\ output_paths = {"json"}
  /\ conversion = Failure("File is not a CSV")
  /\ output_files = {}

(***************************************************************************)
(* json.loads on the texts of the model: objects, arrays, strings with the *)
(* escapes \" \\ \/ \n \t, integers and the literals true, false, null.    *)
(* The texts contain no fraction, exponent, NaN, Infinity or \u escape.    *)
(***************************************************************************)
At(s, i) == IF i \in 1..Len(s) THEN SubSeq(s, i, i) ELSE ""

JsonWhitespace == {" ", TAB, "\n", "\r"}
Digits == {"0", "1", "2", "3", "4", "5", "6", "7", "8", "9"}
DigitValue(c) == CHOOSE n \in 0..9 : At("0123456789", n + 1) = c

ParseError == [ok |-> FALSE, v |-> None, i |-> 0]
Parsed(v, i) == [ok |-> TRUE, v |-> v, i |-> i]

\* the first position from i on that holds no whitespace
RECURSIVE skip_whitespace(_, _)
skip_whitespace(s, i) ==
  IF At(s, i) \in JsonWhitespace THEN skip_whitespace(s, i + 1) ELSE i

\* the string whose opening quote is before position i (strict mode: a
\* control character inside a string is an error)
RECURSIVE scan_string(_, _, _)
scan_string(s, i, chunks) ==
  LET c == At(s, i)
      esc == At(s, i + 1)
  IN IF c = "" THEN ParseError
     ELSE IF c = "\"" THEN Parsed(Str(chunks), i + 1)
     ELSE IF c \in {TAB, "\n", "\r"} THEN ParseError
     ELSE IF c = "\\"
          THEN IF esc \in {"\"", "\\", "/"} THEN scan_string(s, i + 2, chunks \o esc)
               ELSE IF esc = "n" THEN scan_string(s, i + 2, chunks \o "\n")
               ELSE IF esc = "t" THEN scan_string(s, i + 2, chunks \o TAB)
               ELSE ParseError
     ELSE scan_string(s, i + 1, chunks \o c)

\* the digits from position i on
RECURSIVE scan_digits(_, _, _)
scan_digits(s, i, n) ==
  IF At(s, i) \in Digits THEN scan_digits(s, i + 1, 10 * n + DigitValue(At(s, i)))
  ELSE Parsed(Num(n), i)

\* an integer: -?(0|[1-9][0-9]*)
scan_number(s, i) ==
  LET negative == At(s, i) = "-"
      j == IF negative THEN i + 1 ELSE i
      digits == IF At(s, j) = "0" THEN Parsed(Num(0), j + 1)
                ELSE IF At(s, j) \in Digits THEN scan_digits(s, j, 0)
                ELSE ParseError
  IN IF ~ digits.ok THEN ParseError
     ELSE IF negative THEN Parsed(Num(0 - digits.v.v), digits.i)
     ELSE digits

RECURSIVE scan_value(_, _)
RECURSIVE scan_pairs(_, _, _)
RECURSIVE scan_items(_, _, _)

\* the pairs of an object, position i holding the quote of the next key
scan_pairs(s, i, pairs) ==
  IF At(s, i) # "\"" THEN ParseError
  ELSE LET key == scan_string(s, i + 1, "")
       IN IF ~ key.ok THEN ParseError
          ELSE LET colon == skip_whitespace(s, key.i)
               IN IF At(s, colon) # ":" THEN ParseError
                  ELSE LET value == scan_value(s, skip_whitespace(s, colon + 1))
                       IN IF ~ value.ok THEN ParseError
                          ELSE LET next == skip_whitespace(s, value.i)
                                   more == dict_set(pairs, key.v.v, value.v)
                               IN IF At(s, next) = "}" THEN Parsed(Dict(more), next + 1)
                                  ELSE IF At(s, next) = ","
                                  THEN scan_pairs(s, skip_whitespace(s, next + 1), more)
                                  ELSE ParseError

\* the items of an array, position i holding the start of the next item
scan_items(s, i, items) ==
  LET value == scan_value(s, i)
  IN IF ~ value.ok THEN ParseError
     ELSE LET next == skip_whitespace(s, value.i)
              more == Append(items, value.v)
          IN IF At(s, next) = "]" THEN Parsed(List(more), next + 1)
             ELSE IF At(s, next) = ","
             THEN scan_items(s, skip_whitespace(s, next + 1), more)
             ELSE ParseError

scan_value(s, i) ==
  LET c == At(s, i)
  IN IF c = "\"" THEN scan_string(s, i + 1, "")
     ELSE IF c = "{"
          THEN LET j == skip_whitespace(s, i + 1)
               IN IF At(s, j) = "}" THEN Parsed(Dict(EmptyDict), j + 1)
                  ELSE scan_pairs(s, j, EmptyDict)
     ELSE IF c = "["
          THEN LET j == skip_whitespace(s, i + 1)
               IN IF At(s, j) = "]" THEN Parsed(List(<< >>), j + 1)
                  ELSE scan_items(s, j, << >>)
     ELSE IF c = "n" /\ SubSeq(s, i, i + 3) = "null" THEN Parsed(None, i + 4)
     ELSE IF c = "t" /\ SubSeq(s, i, i + 3) = "true" THEN Parsed(Bool(TRUE), i + 4)
     ELSE IF c = "f" /\ SubSeq(s, i, i + 4) = "false" THEN Parsed(Bool(FALSE), i + 5)
     ELSE IF c = "-" \/ c \in Digits THEN scan_number(s, i)
     ELSE ParseError

\* json.loads(s): one value, whitespace around it, nothing after it
json_loads(s) ==
  LET value == scan_value(s, skip_whitespace(s, 1))
  IN IF value.ok /\ skip_whitespace(s, value.i) = Len(s) + 1 THEN value
     ELSE ParseError

(***************************************************************************)
(* validate_json_output and flatten_json_for_text of template_parser.py    *)
(***************************************************************************)
\* the first position from i on that holds character c, 0 if there is none
RECURSIVE find(_, _, _)
find(s, c, i) ==
  IF i > Len(s) THEN 0 ELSE IF At(s, i) = c THEN i ELSE find(s, c, i + 1)

\* the last position down from i that holds character c, 0 if there is none
RECURSIVE rfind(_, _, _)
rfind(s, c, i) ==
  IF i < 1 THEN 0 ELSE IF At(s, i) = c THEN i ELSE rfind(s, c, i - 1)

NoSpan == [found |-> FALSE, text |-> ""]

\* a slip: the span stops at the first closing brace
re_search_lazy(response_text) ==
  LET open == find(response_text, "{", 1)
      close == IF open = 0 THEN 0 ELSE find(response_text, "}", open + 1)
  IN IF close = 0 THEN NoSpan
     ELSE [found |-> TRUE, text |-> SubSeq(response_text, open, close)]

\* re.search(r'\{[\s\S]*\}', response_text): the leftmost match, as long
\* as it can be
re_search(response_text) ==
  LET open == find(response_text, "{", 1)
      close == rfind(response_text, "}", Len(response_text))
  IN IF open = 0 \/ close <= open THEN NoSpan
     ELSE [found |-> TRUE, text |-> SubSeq(response_text, open, close)]

Validated(is_valid, data, error) == [ok |-> is_valid, data |-> data, error |-> error]

validate_json_output(response_text) ==
  LET json_match == re_search(response_text)
      data == json_loads(json_match.text)
  IN IF ~ json_match.found THEN Validated(FALSE, None, "No JSON found in response")
     ELSE IF data.ok THEN Validated(TRUE, data.v, "")
     ELSE Validated(FALSE, None, "JSON decode error")

\* str(n)
RECURSIVE nat_str(_)
nat_str(n) ==
  IF n < 10 THEN At("0123456789", n + 1)
  ELSE nat_str(n \div 10) \o At("0123456789", (n % 10) + 1)

int_str(n) == IF n < 0 THEN "-" \o nat_str(0 - n) ELSE nat_str(n)

\* repr of a string: single quotes, double quotes when the string holds a
\* single quote and no double quote
RECURSIVE escape(_, _)
escape(s, quote) ==
  IF s = "" THEN ""
  ELSE LET c == At(s, 1)
       IN (IF c = "\\" THEN "\\\\"
           ELSE IF c = "\n" THEN "\\n"
           ELSE IF c = TAB THEN "\\t"
           ELSE IF c = quote THEN "\\" \o c
           ELSE c) \o escape(Tail(s), quote)

str_repr(s) ==
  LET quote == IF find(s, "'", 1) # 0 /\ find(s, "\"", 1) = 0 THEN "\"" ELSE "'"
  IN quote \o escape(s, quote) \o quote

RECURSIVE py_repr(_)
RECURSIVE join_items(_, _)
RECURSIVE join_pairs(_, _)

join_items(items, i) ==
  IF i > Len(items) THEN ""
  ELSE (IF i > 1 THEN ", " ELSE "") \o py_repr(items[i]) \o join_items(items, i + 1)

join_pairs(pairs, i) ==
  IF i > Len(pairs) THEN ""
  ELSE (IF i > 1 THEN ", " ELSE "") \o str_repr(pairs[i].k) \o ": "
         \o py_repr(pairs[i].v) \o join_pairs(pairs, i + 1)

py_repr(x) ==
  CASE x.t = "null" -> "None"
    [] x.t = "bool" -> IF x.v THEN "True" ELSE "False"
    [] x.t = "num" -> int_str(x.v)
    [] x.t = "str" -> str_repr(x.v)
    [] x.t = "list" -> "[" \o join_items(x.v, 1) \o "]"
    [] x.t = "dict" -> "{" \o join_pairs(x.v, 1) \o "}"

\* str(x), as an f-string formats a value
py_str(x) == IF x.t = "str" THEN x.v ELSE py_repr(x)

\* "=" * n
RECURSIVE Rule(_)
Rule(n) == IF n = 0 THEN "" ELSE "=" \o Rule(n - 1)

\* the inner loop: "\n{field_name}: {field_value}" for every field
RECURSIVE FlattenFields(_, _, _)
FlattenFields(text_out, fields, i) ==
  IF i > Len(fields) THEN text_out
  ELSE FlattenFields(text_out \o "\n" \o fields[i].k \o ": " \o py_str(fields[i].v),
                     fields, i + 1)

\* a slip: a key that maps to no object is left out
FlattenSection_objects_only(text_out, section, fields) ==
  IF isinstance_dict(fields)
  THEN FlattenFields(text_out \o "\n" \o section \o "\n" \o Rule(Len(section)) \o "\n",
                     fields.v, 1)
  ELSE text_out

\* one pass of the outer loop
FlattenSection(text_out, section, fields) ==
  IF isinstance_dict(fields)
  THEN FlattenFields(text_out \o "\n" \o section \o "\n" \o Rule(Len(section)) \o "\n",
                     fields.v, 1)
  ELSE text_out \o "\n" \o section \o ": " \o py_str(fields)

RECURSIVE FlattenSectionsFrom(_, _, _)
FlattenSectionsFrom(text_out, json_data, i) ==
  IF i > Len(json_data) THEN text_out
  ELSE FlattenSectionsFrom(FlattenSection(text_out, json_data[i].k, json_data[i].v),
                           json_data, i + 1)

flatten_json_for_text(json_data) == FlattenSectionsFrom("", json_data.v, 1)

(***************************************************************************)
(* Texts given to validate_json_output: every text of up to MaxTextLen     *)
(* characters over braces, quote, colon, a letter and a digit, and JSON    *)
(* texts, well formed and not, with prose around them                      *)
(***************************************************************************)
MaxTextLen == 5

TextAlphabet == {"{", "}", "\"", ":", "a", "1"}

RECURSIVE FreeTexts(_)
FreeTexts(n) ==
  IF n = 0 THEN {""}
  ELSE LET shorter == FreeTexts(n - 1)
       IN shorter \cup {s \o c : s \in shorter, c \in TextAlphabet}

Cores ==
  {"{}", "{\"a\":1}", "{ \"a\" : \"1\" }", "{\"a\":{\"b\":1}}",
   "{\"a\":{\"b\":\"x\"},\"c\":\"d\"}", "{\"a\":{}}",
   "{\"a\":1,\"a\":2}", "{\"a}\":\"{\"}", "{\"\":1}", "{\"a\":1,}",
   "{\"a\" 1}", "{a:1}", "{\"a\":}", "{\"a\":1}}", "{\"a\":1}{\"b\":2}",
   "{\"a\":\"b}", "{\"a\":-10}", "{\"a\":{\"b\":{\"c\":1}}}",
   "{\"a\":[1,\"x\",{\"b\":null}],\"c\":true}",
   "{\"a\":false,\n\"b\":null}", "{\"a\":\"x\\\"y\"}",
   "{\"a\":\"x\ty\"}", "{\"a\":01}", "{\"a\":[1,]}",
   "{\"ab\":{\"cd\":\"x\",\"e f\":2},\"g\":[]}", "{\"a\":tru}",
   "{\"a\":\"\\q\"}", "{\"a\":-}"}

ProseBefore == {"", "Here is the JSON: ", "}} a ", "json:\n"}
ProseAfter == {"", " ok", "\n--", " {{"}

InitJson ==
  /\ IdleOutsideParser
  /\ pc = "text"
  /\ validated = NoValidation
  /\ text_output = ""
  /\ \/ /\ core = ""
        /\ response \in FreeTexts(MaxTextLen)
     \/ \E b \in ProseBefore, c \in Cores, a \in ProseAfter :
          /\ core = c
          /\ response = b \o c \o a

ValidateJsonOutput ==
  /\ pc = "text"
  /\ validated' = validate_json_output(response)
  /\ pc' = "parsed"
  /\ UNCHANGED <<response, core, text_output>>
  /\ UNCHANGED notParser

\* main.py calls flatten_json_for_text on the object of a valid response
FlattenJsonForText ==
  /\ pc = "parsed"
  /\ validated.ok
  /\ text_output' = flatten_json_for_text(validated.data)
  /\ pc' = "flattened"
  /\ UNCHANGED <<response, core, validated>>
  /\ UNCHANGED notParser

NextJson == ValidateJsonOutput \/ FlattenJsonForText

SpecJson == InitJson /\ [][NextJson]_vars

(***************************************************************************)
(* Properties of validate_json_output and flatten_json_for_text            *)
(***************************************************************************)
Positions(text, c) == {i \in 1..Len(text) : At(text, i) = c}

\* the text holds a '{' followed somewhere later by a '}'
HasSpan(text) ==
  \E i \in Positions(text, "{"), j \in Positions(text, "}") : i < j

\* from the first '{' to the last '}'
Span(text) ==
  SubSeq(text, Least(Positions(text, "{")), Greatest(Positions(text, "}")))

\* C14: validate_json_output returns (false, none, "No JSON found...")
\* exactly when the text holds no '{' followed later by a '}'; otherwise it
\* parses the span from the first '{' to the last '}' and returns (true,
\* object, "") or (false, none, decode error); prose before the first '{'
\* and after the last '}' changes nothing; a successful result is an object
C14_ValidateJsonOutput ==
  pc # "text" =>
    /\ validated = Validated(FALSE, None, "No JSON found in response")
         <=> ~ HasSpan(response)
    /\ HasSpan(response) =>
         validated = IF json_loads(Span(response)).ok
                     THEN Validated(TRUE, json_loads(Span(response)).v, "")
                     ELSE Validated(FALSE, None, "JSON decode error")
    /\ core # "" => validated = validate_json_output(core)
    /\ validated.ok => isinstance_dict(validated.data)

\* an object between prose that holds closing braces before it and opening
\* braces after it
C14_Witness ==
  /\ pc = "parsed"
  /\ response = "}} a {\"a\":{\"b\":\"x\"},\"c\":\"d\"} {{"
  /\ validated.ok
  /\ validated.data =
       Dict(<< Item("a", Dict(<< Item("b", Str("x")) >>)), Item("c", Str("d")) >>)
  /\ validated.error = ""

\* key in text
Contains(text, key) ==
  \/ key = ""
  \/ \E i \in 1..(Len(text) - Len(key) + 1) : SubSeq(text, i, i + Len(key) - 1) = key

TopLevelKeys(data) == {data.v[i].k : i \in 1..Len(data.v)}

\* C15 as stated: for a well-formed JSON text (an object) the flattened
\* text of the validated object is not empty and contains every top-level key
C15_RoundTripNonEmpty ==
  /\ pc = "flattened"
  /\ json_loads(response).ok
  /\ isinstance_dict(json_loads(response).v)
  => /\ text_output # ""
     /\ \A key \in TopLevelKeys(validated.data) : Contains(text_output, key)

\* C15 amended: the flattened text of a validated object contains every
\* top-level key of the object, and it is empty exactly when the object has
\* no key
C15_RoundTripKeys ==
  pc = "flattened" =>
    /\ \A key \in TopLevelKeys(validated.data) : Contains(text_output, key)
    /\ text_output = "" <=> TopLevelKeys(validated.data) = {}

\* a section key that maps to an object and a top-level scalar key
C15_Witness ==
  /\ pc = "flattened"
  /\ response = "{\"a\":{\"b\":\"x\"},\"c\":\"d\"}"
  /\ text_output = "\na\n=\n\nb: x\nc: d"

(***************************************************************************)
(* DNDEnhancer of dnd_enhancement.py                                       *)
(***************************************************************************)
SUBCLASSES ==
  << [class |-> "Barbarian",
       subclasses |->
         << "Berserker", "Totem Warrior", "Ancestral Guardian",
            "Storm Herald", "Zealot", "Werewolf", "Wild Magic",
            "Beast Master", "Rune Knight" >>],
     [class |-> "Bard",
       subclasses |->
         << "Lore", "Glamour", "Whispers", "Swords", "Whispers",
            "Creation", "Eloquence", "Spirits", "Aberrant Mind",
            "College of Spirits" >>],
     [class |-> "Cleric",
       subclasses |->
         << "Life", "Light", "Tempest", "Trickery", "War", "Knowledge",
            "Nature", "Forge", "Grave", "Order", "Peace", "Twilight",
            "Ambition", "Death" >>],
     [class |-> "Druid",
       subclasses |->
         << "Land", "Moon", "Shepherd", "Dreams", "Wildfire", "Spores",
            "Stars", "Seas", "Underdark", "Mountain", "Grassland",
            "Forest" >>],
     [class |-> "Fighter",
       subclasses |->
         << "Champion", "Battle Master", "Eldritch Knight",
            "Four Elements", "Brute", "Cavalier", "Samurai",
            "Arcane Archer", "Rune Knight", "Echo Knight" >>],
     [class |-> "Monk",
       subclasses |->
         << "Way of the Open Hand", "Way of Shadow",
            "Way of the Long Death", "Way of the Four Elements",
            "Way of the Kensei", "Way of Mercy", "Way of Tranquility",
            "Way of the Ascendant Dragon", "Way of Twilight" >>],
     [class |-> "Paladin",
       subclasses |->
         << "Devotion", "Ancients", "Vengeance", "Conquest",
            "Redemption", "Watchers", "Oath of the Watchers",
            "Oath of Heroism", "Oath of Glory" >>],
     [class |-> "Ranger",
       subclasses |->
         << "Hunter", "Beast Master", "Gloom Stalker", "Monk",
            "Rune Knight", "Swarmkeeper", "Fey Wanderer",
            "Twilight Cleric", "Monster Slayer" >>],
     [class |-> "Rogue",
       subclasses |->
         << "Thief", "Assassin", "Arcane Trickster", "Inquisitive",
            "Mastermind", "Swashbuckler", "Scout", "Phantom",
            "Soulknife", "Aberrant Mind" >>],
     [class |-> "Sorcerer",
       subclasses |->
         << "Draconic Bloodline", "Wild Magic", "Divine Soul",
            "Shadow Magic", "Storm Sorcery", "Aberrant Mind",
            "Clockwork Soul", "Lunar Sorcery" >>],
     [class |-> "Warlock",
       subclasses |->
         << "The Fiend", "The Great Old One", "The Archfey",
            "The Celestial", "The Hexblade", "The Undead",
            "The Raven Queen", "The Genie" >>],
     [class |-> "Wizard",
       subclasses |->
         << "Abjuration", "Conjuration", "Divination", "Enchantment",
            "Evocation", "Illusion", "Necromancy", "Transmutation",
            "War Magic", "Chronurgy Magic" >>],
     [class |-> "Artificer",
       subclasses |->
         << "Alchemist", "Armorer", "Artillerist", "Battle Smith",
            "Infusion Master" >>],
     [class |-> "Blood Hunter",
       subclasses |->
         << "Order of the Lycan", "Order of the Profane Soul",
            "Order of the Mutant", "Order of the Ghostslayer",
            "Order of the Ritual" >>] >>

SPECIES ==
  << "Human", "Elf", "Dwarf", "Halfling", "Dragonborn", "Gnome",
     "Half-Elf", "Half-Orc", "Tiefling", "Orc", "Goblin", "Kenku",
     "Tabaxi", "Aasimar", "Genasi", "Firbolg", "Kobold", "Lizardfolk",
     "Triton", "Bugbear", "Bearfolk", "Centaur", "Changeling",
     "Goliath", "Hobgoblin", "Loxodon", "Minotaur", "Satyr",
     "Vedalken", "Warforged" >>

CLASSES ==
  << "Barbarian", "Bard", "Cleric", "Druid", "Fighter", "Monk",
     "Paladin", "Ranger", "Rogue", "Sorcerer", "Warlock", "Wizard",
     "Artificer", "Blood Hunter" >>

PromptHead ==
  "You are a Dungeons & Dragons 5e 2024 character specialist. "
  \o "Your task is to enhance an existing character profile with "
  \o "D&D-specific details.\n"
  \o "\n"
  \o "EXISTING CHARACTER PROFILE:\n"
  \o "---\n"

PromptSpecies ==
  "\n"
  \o "---\n"
  \o "\n"
  \o "D&D 5e 2024 DETAILS:\n"
  \o "- Species: "

PromptClass ==
  "\n"
  \o "- Class: "

PromptLevel ==
  "\n"
  \o "- Level: "

RequirementsHead ==
  "1. Add 'D&D Profile' section with:\n"
  \o "   - Class Features (appropriate for level)\n"
  \o "   - Subclass Features: Detail specific abilities from the "

RequirementsTail ==
  " subclass\n"
  \o "   - Species Traits (inherent racial abilities)\n"
  \o "   - Ability Scores breakdown (STR, DEX, CON, INT, WIS, "
  \o "CHA)\n"
  \o "   - Hit Points (with CON modifier calculation)\n"
  \o "   - Skills & Proficiencies (tied to class and subclass)\n"
  \o "   - Equipment (starting or level-appropriate)\n"
  \o "   - Suggested Background hooks tied to character "
  \o "background\n"
  \o "2. Include specific subclass mechanics and roleplay "
  \o "implications\n"
  \o "3. Explain how subclass features enhance the character "
  \o "concept\n"
  \o "4. Maintain consistency with existing character personality "
  \o "and background\n"
  \o "5. Make mechanical choices align with the character concept\n"
  \o "6. Include roleplay notes for how species/class/subclass "
  \o "traits manifest in their personality\n"

RequirementsPlain ==
  "1. Add 'D&D Profile' section with:\n"
  \o "   - Class Features (appropriate for level)\n"
  \o "   - Species Traits (inherent racial abilities)\n"
  \o "   - Ability Scores breakdown (STR, DEX, CON, INT, WIS, "
  \o "CHA)\n"
  \o "   - Hit Points (with CON modifier calculation)\n"
  \o "   - Skills & Proficiencies (tied to class)\n"
  \o "   - Equipment (starting or level-appropriate)\n"
  \o "   - Suggested Background hooks tied to character "
  \o "background\n"
  \o "2. Maintain consistency with existing character personality "
  \o "and background\n"
  \o "3. Make mechanical choices align with the character concept\n"
  \o "4. Include roleplay notes for how species/class traits "
  \o "manifest in their personality\n"

PromptTail ==
  "OUTPUT:\n"
  \o "Provide the full enhanced character profile with the new "
  \o "D&D section integrated naturally. Output ONLY the complete "
  \o "character profile with D&D enhancements, nothing else."

\* x in a list
in_list(x, list) == \E i \in 1..Len(list) : list[i] = x

\* a slip: every species is accepted
is_valid_species_always(species) == TRUE

is_valid_species(species) == in_list(species, SPECIES)

is_valid_class(character_class) == in_list(character_class, CLASSES)

\* character_class in self.SUBCLASSES
has_subclass_list(character_class) ==
  \E i \in 1..Len(SUBCLASSES) : SUBCLASSES[i].class = character_class

\* self.SUBCLASSES[character_class]
subclass_list(character_class) ==
  SUBCLASSES[CHOOSE i \in 1..Len(SUBCLASSES) :
               SUBCLASSES[i].class = character_class].subclasses

\* a slip: the subclass is looked up in the lists of all classes
is_valid_subclass_of_any_class(character_class, subclass) ==
  IF ~ is_valid_class(character_class) THEN FALSE
  ELSE IF ~ has_subclass_list(character_class) THEN FALSE
  ELSE \E i \in 1..Len(SUBCLASSES) : in_list(subclass, SUBCLASSES[i].subclasses)

is_valid_subclass(character_class, subclass) ==
  IF ~ is_valid_class(character_class) THEN FALSE
  ELSE IF ~ has_subclass_list(character_class) THEN FALSE
  ELSE in_list(subclass, subclass_list(character_class))

\* a slip: the level is brought into 1..20 before it is written
build_enhancement_prompt_clamped(base_character, species, character_class, level, subclass) ==
  LET clamped == IF level < 1 THEN 1 ELSE IF level > 20 THEN 20 ELSE level
  IN PromptHead \o base_character \o PromptSpecies \o species
       \o PromptClass \o character_class \o PromptLevel \o int_str(clamped) \o "\n"
       \o (IF py_bool(subclass) THEN "- Subclass: " \o subclass.v \o "\n" ELSE "")
       \o "\n" \o "ENHANCEMENT REQUIREMENTS:\n"
       \o (IF py_bool(subclass) THEN RequirementsHead \o subclass.v \o RequirementsTail
           ELSE RequirementsPlain)
       \o "\n" \o PromptTail

\* subclass is Optional[str]: None or a string
build_enhancement_prompt(base_character, species, character_class, level, subclass) ==
  LET subclass_line ==
        IF py_bool(subclass) THEN "- Subclass: " \o subclass.v \o "\n" ELSE ""
      subclass_requirements ==
        IF py_bool(subclass)
        THEN RequirementsHead \o (IF py_bool(subclass) THEN subclass.v ELSE "chosen")
               \o RequirementsTail
        ELSE RequirementsPlain
  IN PromptHead \o base_character \o PromptSpecies \o species
       \o PromptClass \o character_class \o PromptLevel \o int_str(level) \o "\n"
       \o subclass_line \o "\n"
       \o "ENHANCEMENT REQUIREMENTS:\n" \o subclass_requirements \o "\n"
       \o PromptTail

\* what enhance_character gives back: nothing yet, a text, or an exception
Returned(text) == [kind |-> "returned", value |-> text]
ValueError(message) == [kind |-> "ValueError", value |-> message]
GeneratorError == [kind |-> "GeneratorError", value |-> "generation failed"]

\* the Text Generator call of enhance_character: through the client when
\* the enhancer has one, through generate_from_prompt otherwise
GeneratorCall(args, prompt, reply) ==
  [via |-> IF args.client THEN "gemini_client.generate" ELSE "generate_from_prompt",
   prompt |-> prompt, reply |-> reply]

(***************************************************************************)
(* Calls of is_valid_subclass and of enhance_character                     *)
(***************************************************************************)
MaxLevel == 25

AllSubclasses ==
  UNION {{SUBCLASSES[i].subclasses[j] : j \in 1..Len(SUBCLASSES[i].subclasses)} :
           i \in 1..Len(SUBCLASSES)}

ClassNames ==
  {CLASSES[i] : i \in 1..Len(CLASSES)}
    \cup {"UnknownClass", "wizard", " Wizard", "", "Evocation", "Human"}

SubclassNames ==
  AllSubclasses \cup {"Anything", "evocation", "Evocation ", "", "Wizard"}

InitSubclass ==
  /\ IdleOutsideEnhancer
  /\ pc = "subclass"
  /\ subclass_valid = FALSE
  /\ generator_calls = << >>
  /\ enhanced = NotEnhanced
  /\ \E c \in ClassNames, sc \in SubclassNames :
       dnd_args = [NoArguments EXCEPT !.character_class = c, !.subclass = Str(sc)]

IsValidSubclass ==
  /\ pc = "subclass"
  /\ subclass_valid' = is_valid_subclass(dnd_args.character_class, dnd_args.subclass.v)
  /\ pc' = "answered"
  /\ UNCHANGED <<dnd_args, generator_calls, enhanced>>
  /\ UNCHANGED notEnhancer

NextSubclass == IsValidSubclass

SpecSubclass == InitSubclass /\ [][NextSubclass]_vars

EnhanceSpecies == {"Human", "Warforged", "human", "Dragon", ""}
EnhanceClasses == {"Wizard", "Fighter", "Blood Hunter", "Ranger", "wizard", "UnknownClass"}
EnhanceSubclasses ==
  {None, Str(""), Str("Evocation"), Str("Berserker"), Str("Rune Knight"),
   Str("Order of the Lycan"), Str("Anything"), Str("evocation")}
Levels == (-2)..MaxLevel
GeneratorReplies == {Returned("ENHANCED PROFILE"), Returned(""), GeneratorError}

InitEnhance ==
  /\ IdleOutsideEnhancer
  /\ pc = "enhance"
  /\ subclass_valid = FALSE
  /\ generator_calls = << >>
  /\ enhanced = NotEnhanced
  /\ \E sp \in EnhanceSpecies, c \in EnhanceClasses, sc \in EnhanceSubclasses,
        l \in Levels, cl \in BOOLEAN :
       dnd_args = [base_character |-> "Bram, a blacksmith", species |-> sp,
                   character_class |-> c, level |-> l, subclass |-> sc,
                   client |-> cl]

\* if not self.is_valid_species(species): raise ValueError
CheckSpecies ==
  /\ pc = "enhance"
  /\ IF is_valid_species(dnd_args.species)
     THEN pc' = "species checked" /\ UNCHANGED enhanced
     ELSE pc' = "enhance done" /\ enhanced' = ValueError("Invalid D&D species")
  /\ UNCHANGED <<dnd_args, subclass_valid, generator_calls>>
  /\ UNCHANGED notEnhancer

\* if not self.is_valid_class(character_class): raise ValueError
CheckClass ==
  /\ pc = "species checked"
  /\ IF is_valid_class(dnd_args.character_class)
     THEN pc' = "class checked" /\ UNCHANGED enhanced
     ELSE pc' = "enhance done" /\ enhanced' = ValueError("Invalid D&D class")
  /\ UNCHANGED <<dnd_args, subclass_valid, generator_calls>>
  /\ UNCHANGED notEnhancer

\* if subclass and not self.is_valid_subclass(...): raise ValueError
CheckSubclass ==
  /\ pc = "class checked"
  /\ IF py_bool(dnd_args.subclass)
        /\ ~ is_valid_subclass(dnd_args.character_class, dnd_args.subclass.v)
     THEN pc' = "enhance done" /\ enhanced' = ValueError("Invalid D&D subclass")
     ELSE pc' = "subclass checked" /\ UNCHANGED enhanced
  /\ UNCHANGED <<dnd_args, subclass_valid, generator_calls>>
  /\ UNCHANGED notEnhancer

\* the prompt is built and given to the Text Generator; what the generator
\* returns is returned, what it raises propagates
Generate ==
  /\ pc = "subclass checked"
  /\ \E reply \in GeneratorReplies :
       /\ generator_calls' =
            Append(generator_calls,
                   GeneratorCall(dnd_args,
                     build_enhancement_prompt(dnd_args.base_character, dnd_args.species,
                       dnd_args.character_class, dnd_args.level, dnd_args.subclass),
                     reply))
       /\ enhanced' = reply
  /\ pc' = "enhance done"
  /\ UNCHANGED <<dnd_args, subclass_valid>>
  /\ UNCHANGED notEnhancer

NextEnhance == CheckSpecies \/ CheckClass \/ CheckSubclass \/ Generate

SpecEnhance == InitEnhance /\ [][NextEnhance]_vars

(***************************************************************************)
(* Properties of the enhancer                                              *)
(***************************************************************************)
SpeciesSet == {SPECIES[i] : i \in 1..Len(SPECIES)}
ClassSet == {CLASSES[i] : i \in 1..Len(CLASSES)}

\* the members of SUBCLASSES[class], none for a class without a list
SubclassSet(class) ==
  UNION {{SUBCLASSES[i].subclasses[j] : j \in 1..Len(SUBCLASSES[i].subclasses)} :
           i \in {k \in 1..Len(SUBCLASSES) : SUBCLASSES[k].class = class}}

\* C16: is_valid_subclass(class, subclass) is true exactly when class is in
\* CLASSES and subclass is in SUBCLASSES[class], compared exactly: false for
\* a class outside CLASSES and for a subclass of another class only
C16_ValidSubclass ==
  pc = "answered" =>
    LET class == dnd_args.character_class
        subclass == dnd_args.subclass.v
    IN /\ subclass_valid <=> (class \in ClassSet /\ subclass \in SubclassSet(class))
       /\ class = "Wizard" /\ subclass = "Evocation" => subclass_valid
       /\ class = "Wizard" /\ subclass = "Berserker" => ~ subclass_valid
       /\ class = "UnknownClass" => ~ subclass_valid

\* Berserker, a subclass of the Barbarian only, asked for the Wizard
C16_Witness ==
  /\ pc = "answered"
  /\ dnd_args.character_class = "Wizard"
  /\ dnd_args.subclass = Str("Berserker")
  /\ "Berserker" \in SubclassSet("Barbarian")
  /\ ~ subclass_valid

\* a subclass is supplied when it is neither None nor the empty string
Supplied(subclass) == subclass # None /\ subclass # Str("")

SpeciesInvalid == dnd_args.species \notin SpeciesSet
ClassInvalid == dnd_args.character_class \notin ClassSet
SubclassInvalid ==
  /\ Supplied(dnd_args.subclass)
  /\ dnd_args.subclass.v \notin SubclassSet(dnd_args.character_class)

\* C17: with an invalid species, an invalid class or a supplied subclass
\* outside the list of the class, enhance_character raises (the species is
\* reported before the class, the class before the subclass) and no Text
\* Generator call is ever issued; a call is issued only after all three
\* checks have passed
C17_RejectBeforeGenerator ==
  /\ SpeciesInvalid \/ ClassInvalid \/ SubclassInvalid => generator_calls = << >>
  /\ pc = "enhance done" /\ SpeciesInvalid =>
       enhanced = ValueError("Invalid D&D species")
  /\ pc = "enhance done" /\ ~ SpeciesInvalid /\ ClassInvalid =>
       enhanced = ValueError("Invalid D&D class")
  /\ pc = "enhance done" /\ ~ SpeciesInvalid /\ ~ ClassInvalid /\ SubclassInvalid =>
       enhanced = ValueError("Invalid D&D subclass")
  /\ generator_calls # << >> => pc = "enhance done"

\* an unknown species with an unknown class: the species is reported
C17_Witness ==
  /\ pc = "enhance done"
  /\ dnd_args.species = "Dragon"
  /\ dnd_args.character_class = "UnknownClass"
  /\ dnd_args.subclass = Str("Anything")
  /\ enhanced = ValueError("Invalid D&D species")
  /\ generator_calls = << >>

\* C18: with a valid species and class and a valid or absent subclass,
\* whatever the level, enhance_character raises no ValueError, issues exactly
\* one Text Generator call whose prompt holds the level as given, and gives
\* back what the generator gave
C18_LevelNeverRejected ==
  pc = "enhance done" /\ ~ SpeciesInvalid /\ ~ ClassInvalid /\ ~ SubclassInvalid =>
    /\ Len(generator_calls) = 1
    /\ Contains(generator_calls[1].prompt,
                "\n- Level: " \o int_str(dnd_args.level) \o "\n")
    /\ enhanced = generator_calls[1].reply
    /\ enhanced.kind # "ValueError"

\* a Human Fighter of level 25 without subclass
C18_Witness ==
  /\ pc = "enhance done"
  /\ dnd_args.species = "Human"
  /\ dnd_args.character_class = "Fighter"
  /\ dnd_args.level = 25
  /\ dnd_args.subclass = None
  /\ Len(generator_calls) = 1
  /\ enhanced = Returned("ENHANCED PROFILE")

(***************************************************************************)
(* character_input.py: process_character_file and extract_character_args   *)
(***************************************************************************)
FileResult(is_valid, error, characters) ==
  [ok |-> is_valid, error |-> error, characters |-> characters]

\* the entries of an input file: a JSON text as the value it parses to, a
\* text json cannot parse with the message of the JSONDecodeError, and a
\* blank line
Malformed(message) == [t |-> "malformed", v |-> message]
Blank == [t |-> "blank", v |-> ""]

Loaded(data) == [raised |-> "", data |-> data, message |-> ""]
LoadError(exception, message) ==
  [raised |-> exception, data |-> None, message |-> message]

\* json.load of the whole file; an empty file is no JSON text
load_json_file(file) ==
  IF ~ file.exists
  THEN LoadError("FileNotFoundError", "File not found: " \o file.path)
  ELSE IF file.entries = << >>
  THEN LoadError("JSONDecodeError", "Expecting value: line 1 column 1 (char 0)")
  ELSE IF file.entries[1].t = "malformed"
  THEN LoadError("JSONDecodeError", file.entries[1].v)
  ELSE Loaded(file.entries[1])

\* the loop over the lines: blank lines are skipped, the first line that is
\* no JSON text raises
RECURSIVE ReadLines(_, _, _)
ReadLines(records, entries, line_num) ==
  IF line_num > Len(entries) THEN Loaded(List(records))
  ELSE IF entries[line_num].t = "blank"
  THEN ReadLines(records, entries, line_num + 1)
  ELSE IF entries[line_num].t = "malformed"
  THEN LoadError("JSONDecodeError", entries[line_num].v)
  ELSE ReadLines(Append(records, entries[line_num]), entries, line_num + 1)

load_jsonl_file(file) ==
  IF ~ file.exists
  THEN LoadError("FileNotFoundError", "File not found: " \o file.path)
  ELSE ReadLines(<< >>, file.entries, 1)

\* type(x).__name__
type_name(x) ==
  CASE x.t = "str" -> "str"
    [] x.t = "num" -> "int"
    [] x.t = "bool" -> "bool"
    [] x.t = "list" -> "list"
    [] x.t = "dict" -> "dict"
    [] x.t = "null" -> "NoneType"

\* a slip: the records validated so far are returned with the failure
failed_record_partial(valid_characters, idx, error) ==
  FileResult(FALSE,
             Str("Record " \o nat_str(idx) \o " validation failed: " \o error),
             valid_characters)

\* return False, f"Record {idx + 1} validation failed: {error}", []
failed_record(valid_characters, idx, error) ==
  FileResult(FALSE,
             Str("Record " \o nat_str(idx) \o " validation failed: " \o error),
             << >>)

\* the loop over the records; idx counts from 1 here, as the message does.
\* A record that is no mapping has no items(): the AttributeError is caught
\* by the last except clause
RECURSIVE ValidateRecords(_, _, _)
ValidateRecords(valid_characters, records, idx) ==
  IF idx > Len(records) THEN FileResult(TRUE, None, valid_characters)
  ELSE IF ~ isinstance_dict(records[idx])
  THEN FileResult(FALSE,
                  Str("Error processing file: '" \o type_name(records[idx])
                      \o "' object has no attribute 'items'"),
                  << >>)
  ELSE LET validation == validate_character_input(records[idx].v)
       IN IF ~ validation.ok
          THEN failed_record(valid_characters, idx, validation.error.v)
          ELSE ValidateRecords(Append(valid_characters, validation.record),
                               records, idx + 1)

process_character_file(file, is_jsonl) ==
  LET loaded == IF is_jsonl THEN load_jsonl_file(file) ELSE load_json_file(file)
      records == IF loaded.data.t = "list" THEN loaded.data.v
                 ELSE << loaded.data >>
  IN IF loaded.raised = "FileNotFoundError"
     THEN FileResult(FALSE, Str(loaded.message), << >>)
     ELSE IF loaded.raised = "JSONDecodeError"
     THEN FileResult(FALSE, Str("Invalid JSON format: " \o loaded.message), << >>)
     ELSE IF records = << >>
     THEN FileResult(FALSE, Str("No character records found in file"), << >>)
     ELSE ValidateRecords(<< >>, records, 1)

\* dict.get(key): None for an absent key
py_get(d, k) == IF dict_has(d, k) THEN dict_get(d, k) ELSE None

\* dict.get(key, ''): the empty string for an absent key
get_or_empty(d, k) == IF dict_has(d, k) THEN dict_get(d, k) ELSE Str("")

\* parts[0] and parts[1] of text.split('|')
first_part(text) ==
  LET bar == find(text, "|", 1)
  IN IF bar = 0 THEN text ELSE SubSeq(text, 1, bar - 1)

second_part(text) ==
  LET bar == find(text, "|", 1)
      rest == SubSeq(text, bar + 1, Len(text))
  IN first_part(rest)

\* lines 349-359: a string is split at the bars, a mapping is read by key
sex_gender_args(args, sex_gender) ==
  IF sex_gender.t = "str"
  THEN LET parts == str_lower(sex_gender.v)
           with_sex == dict_set(args, "sex", Str(str_strip(first_part(parts))))
       IN IF find(parts, "|", 1) # 0
          THEN dict_set(with_sex, "gender", Str(str_strip(second_part(parts))))
          ELSE with_sex
  ELSE IF sex_gender.t = "dict"
  THEN dict_set(
         dict_set(args, "sex",
                  Str(str_lower(get_or_empty(sex_gender.v, "sex").v))),
         "gender", Str(str_lower(get_or_empty(sex_gender.v, "gender").v)))
  ELSE args

\* .lower() of a value that is no string raises AttributeError
sex_gender_raises(character_data) ==
  /\ dict_has(character_data, "sex/gender")
  /\ dict_get(character_data, "sex/gender").t = "dict"
  /\ \/ get_or_empty(dict_get(character_data, "sex/gender").v, "sex").t # "str"
     \/ get_or_empty(dict_get(character_data, "sex/gender").v, "gender").t # "str"

\* args[key] = character_data[field] when the field is there
copy_field(args, character_data, field, key) ==
  IF dict_has(character_data, field)
  THEN dict_set(args, key, dict_get(character_data, field))
  ELSE args

\* lines 371-374, the inner loop: every field of a section block becomes an
\* argument under its lowercased name with underscores for spaces
RECURSIVE SectionArgs(_, _, _)
SectionArgs(args, items, i) ==
  IF i > Len(items) THEN args
  ELSE SectionArgs(
         dict_set(args, str_replace(str_lower(items[i].k), " ", "_"), items[i].v),
         items, i + 1)

RECURSIVE SectionsArgs(_, _, _)
SectionsArgs(args, character_data, s) ==
  IF s > Len(INPUT_TEMPLATE_SECTIONS) THEN args
  ELSE LET section == INPUT_TEMPLATE_SECTIONS[s]
       IN SectionsArgs(
            IF /\ dict_has(character_data, section)
               /\ isinstance_dict(dict_get(character_data, section))
            THEN SectionArgs(args, dict_get(character_data, section).v, 1)
            ELSE args,
            character_data, s + 1)

\* lines 376-382
MetadataArgs(args, character_data) ==
  LET meta == dict_get(character_data, "metadata")
      with_title ==
        IF dict_has(meta.v, "new_doc_title")
           /\ py_bool(dict_get(meta.v, "new_doc_title"))
        THEN dict_set(args, "new_doc_title", dict_get(meta.v, "new_doc_title"))
        ELSE args
  IN IF dict_has(character_data, "metadata") /\ isinstance_dict(meta)
     THEN IF dict_has(meta.v, "json_output")
          THEN dict_set(with_title, "json_output", dict_get(meta.v, "json_output"))
          ELSE with_title
     ELSE args

extract_character_args(character_data) ==
  LET named == copy_field(EmptyDict, character_data, "name", "name")
      sexed == IF dict_has(character_data, "sex/gender")
               THEN sex_gender_args(named, dict_get(character_data, "sex/gender"))
               ELSE named
      aged == copy_field(sexed, character_data, "age", "age_range")
      employed == copy_field(aged, character_data, "occupation", "occupation")
      mandatory == copy_field(employed, character_data, "ethnicity", "ethnicity")
  IN MetadataArgs(SectionsArgs(mandatory, character_data, 1), character_data)

(***************************************************************************)
(* main.py: the characters are loaded, the services are set up once, then  *)
(* the loop takes the characters one by one                                *)
(***************************************************************************)
MaxBatch == 2        \* records of an input file

\* an entry of the log: the operation, the number of the character it was
\* made for (0 before the loop), whether it returned, and its arguments
Operation(op, char, ok, data) ==
  [op |-> op, char |-> char, ok |-> ok, data |-> data]

\* lines 147-154: if args.x: char_args['x'] = args.x
override(char_args, key, value) ==
  IF py_bool(value) THEN dict_set(char_args, key, value) ELSE char_args

with_overrides(char_args, cl) ==
  override(
    override(
      override(override(char_args, "species", cl.species),
               "character_class", cl.character_class),
      "subclass", cl.subclass),
    "level", cl.level)

\* lines 172-185: the one argument mapping of CLI mode
cli_character_args(cl) ==
  << Item("name", cl.name), Item("sex", cl.sex), Item("gender", cl.gender),
     Item("age_range", cl.age_range), Item("ethnicity", cl.ethnicity),
     Item("occupation", cl.occupation), Item("species", cl.species),
     Item("character_class", cl.character_class), Item("level", cl.level),
     Item("subclass", cl.subclass), Item("new_doc_title", cl.new_doc_title),
     Item("json_output", cl.json_output) >>

\* line 160: the required arguments of CLI mode are all given
cli_complete(cl) ==
  /\ py_bool(cl.name) /\ py_bool(cl.sex) /\ py_bool(cl.gender)
  /\ py_bool(cl.age_range) /\ py_bool(cl.ethnicity) /\ py_bool(cl.occupation)

\* the date of datetime.utcnow() in the default document title
Today == "2024-01-01"

\* lines 362-365
doc_title(char_args) ==
  IF py_bool(py_get(char_args, "new_doc_title"))
  THEN py_get(char_args, "new_doc_title")
  ELSE Str("Character - " \o py_str(dict_get(char_args, "name")) \o " - " \o Today)

\* get_doc_url(doc_id)
get_doc_url(doc_id) ==
  "https://docs.google.com/document/d/" \o nat_str(doc_id) \o "/edit"

\* line 381: if species and character_class and level
enhancement_requested(char_args) ==
  /\ py_bool(py_get(char_args, "species"))
  /\ py_bool(py_get(char_args, "character_class"))
  /\ py_bool(py_get(char_args, "level"))

\* line 391: DND_SUBCLASSES.get(character_class, [])
valid_subclasses(character_class) ==
  IF character_class.t = "str" /\ has_subclass_list(character_class.v)
  THEN subclass_list(character_class.v)
  ELSE << >>

\* lines 390-401: a subclass outside the list of the class is dropped
checked_subclass(character_class, subclass) ==
  IF py_bool(subclass)
  THEN IF subclass.t = "str"
          /\ in_list(subclass.v, valid_subclasses(character_class))
       THEN subclass
       ELSE None
  ELSE subclass

\* dnd_enhancement.py lines 307-318: the ValueError enhance_character raises
\* before it builds the prompt, "" when it raises none
enhancement_error(species, character_class, subclass) ==
  IF ~ (species.t = "str" /\ is_valid_species(species.v))
  THEN "Invalid D&D species"
  ELSE IF ~ (character_class.t = "str" /\ is_valid_class(character_class.v))
  THEN "Invalid D&D class"
  ELSE IF py_bool(subclass)
          /\ ~ (subclass.t = "str"
                /\ is_valid_subclass(character_class.v, subclass.v))
  THEN "Invalid D&D subclass"
  ELSE ""

\* a slip: a call that raised is logged and the loop goes on
after_failure_continue == "loop"

\* no try statement in main: what a call raises ends the run
after_failure == "stopped"

\* the log with one more call
Logged(op, ok, data) == Append(operations, Operation(op, char_idx, ok, data))

\* the character of this pass of the loop
CharArgs == character_args_list[char_idx]

(***************************************************************************)
(* Runs of main: input files of up to MaxBatch records, in JSON and JSONL  *)
(* form, command lines with and without D&D overrides                      *)
(***************************************************************************)
PlainRecord == Dict(PlainObject)

JsonRecord ==
  Dict(Insert(PlainObject, Ins("metadata", "json_output", Bool(TRUE))))

DndRecord ==
  Dict(InsertAll(PlainObject,
                 << Ins("Demographics", "Species", Str("Elf")),
                    Ins("Demographics", "Character_Class", Str("Wizard")),
                    Ins("Demographics", "level", Num(3)),
                    Ins("Demographics", "subclass", Str("Evocation")) >>, 1))

\* a species outside SPECIES, which enhance_character rejects
DragonRecord ==
  Dict(InsertAll(PlainObject,
                 << Ins("Demographics", "species", Str("Dragon")),
                    Ins("Demographics", "character_class", Str("Wizard")),
                    Ins("Demographics", "level", Num(3)) >>, 1))

\* the plain record without its name
NamelessRecord ==
  Dict(SelectSeq(PlainObject, LAMBDA item : item.k # MANDATORY_FIELDS[1].key))

\* a JSON text that is no object
NotARecord == Str("Bram")

RecordKinds ==
  {PlainRecord, JsonRecord, DndRecord, DragonRecord, NamelessRecord, NotARecord}

Batches == UNION {[1..n -> RecordKinds] : n \in 0..MaxBatch}

NotJson == Malformed("Expecting value: line 1 column 1 (char 0)")

InputFile(entries) ==
  [exists |-> TRUE, path |-> "characters.json", entries |-> entries]
MissingFile == [exists |-> FALSE, path |-> "characters.json", entries |-> << >>]

\* a JSON file: an array of records, one record, a text that is no JSON,
\* nothing, or no file
JsonFiles ==
  {InputFile(<< List(b) >>) : b \in Batches}
    \cup {InputFile(<< r >>) : r \in RecordKinds}
    \cup {InputFile(<< NotJson >>), InputFile(<< >>), MissingFile}

\* a JSONL file: a record on every line, with a blank line after the first
\* record, with a line that is no JSON at the end, or no file
RecordLines == {PlainRecord, DndRecord, NamelessRecord}

LineBatches == UNION {[1..n -> RecordLines] : n \in 0..MaxBatch}

JsonlFiles ==
  {InputFile(b) : b \in LineBatches}
    \cup {InputFile(<< b[1], Blank >> \o Tail(b)) : b \in LineBatches \ {<< >>}}
    \cup {InputFile(Append(b, NotJson)) : b \in LineBatches}
    \cup {MissingFile}

NoOverrides ==
  [species |-> None, character_class |-> None, subclass |-> None, level |-> None]

\* --species Elf --class Wizard --subclass Berserker --level 25: a subclass
\* of another class and a level outside 1..20
Overrides ==
  [species |-> Str("Elf"), character_class |-> Str("Wizard"),
   subclass |-> Str("Berserker"), level |-> Num(25)]

\* --species Elf --class Wizard --subclass Berserker --level 0, and
\* --level -1: the same with a level below 1
LevelOverrides(level) ==
  [species |-> Str("Elf"), character_class |-> Str("Wizard"),
   subclass |-> Str("Berserker"), level |-> Num(level)]

OverrideSets == {NoOverrides, Overrides, LevelOverrides(0), LevelOverrides(0 - 1)}

FileCommandLine(mode, file, dnd) ==
  [mode |-> mode, file |-> file, name |-> None, sex |-> None, gender |-> None,
   age_range |-> None, ethnicity |-> None, occupation |-> None,
   species |-> dnd.species, character_class |-> dnd.character_class,
   subclass |-> dnd.subclass, level |-> dnd.level,
   new_doc_title |-> None, json_output |-> Bool(FALSE)]

CliCommandLine(occupation, dnd, json_output) ==
  [mode |-> "cli", file |-> MissingFile, name |-> Str("Bram"),
   sex |-> Str("male"), gender |-> Str("he/him"), age_range |-> Str("adult"),
   ethnicity |-> Str("Human"), occupation |-> occupation,
   species |-> dnd.species, character_class |-> dnd.character_class,
   subclass |-> dnd.subclass, level |-> dnd.level,
   new_doc_title |-> None, json_output |-> Bool(json_output)]

CommandLines ==
  {FileCommandLine("json", f, d) : f \in JsonFiles, d \in OverrideSets}
    \cup {FileCommandLine("jsonl", f, d) : f \in JsonlFiles, d \in OverrideSets}
    \cup {CliCommandLine(o, d, j) :
            o \in {Str("blacksmith"), None}, d \in OverrideSets, j \in BOOLEAN}

\* what the Text Generator answers to the base prompt: prose to the text
\* prompt; prose, a JSON object within prose or the empty object to the JSON
\* prompt
BaseReplies(json_output_mode) ==
  IF py_bool(json_output_mode)
  THEN {"Bram is a smith.", "Here is the JSON: {\"name\": \"Bram\"} ok", "{}"}
  ELSE {"Bram is a smith."}

\* what it answers to the enhancement prompt
EnhancementReplies == {"ENHANCED PROFILE"}

InitMain ==
  /\ IdleOutsideMain
  /\ pc = "main"
  /\ argv \in CommandLines
  /\ environment \in (IF argv.mode = "cli" THEN BOOLEAN ELSE {TRUE})
  /\ file_result = NoFileResult
  /\ character_args_list = << >>
  /\ char_idx = 0
  /\ locals = NoLocals
  /\ operations = << >>
  /\ exit_status = "running"

\* the run ends with an exception or a SystemExit
Stop(status) ==
  /\ pc' = "stopped"
  /\ exit_status' = status

\* a slip: an exception of the call is caught and the run goes on
Call_caught(op, ok, data, next) ==
  /\ operations' = Logged(op, ok, data)
  /\ pc' = next
  /\ UNCHANGED exit_status

\* a collaborator call or a file write: it is logged; when it returns the
\* run goes on at next, when it raises nothing catches the exception
Call(op, ok, data, next) ==
  /\ operations' = Logged(op, ok, data)
  /\ IF ok THEN pc' = next /\ UNCHANGED exit_status
     ELSE pc' = after_failure /\ exit_status' = "raised"

\* main.py lines 127-156, file mode: process_character_file, SystemExit(1)
\* when it reports a failure, else the arguments of every character with
\* the overrides of the command line
LoadCharacterFile ==
  /\ pc = "main"
  /\ argv.mode \in {"json", "jsonl"}
  /\ LET loaded == process_character_file(argv.file, argv.mode = "jsonl")
         characters == loaded.characters
     IN /\ file_result' = loaded
        /\ IF ~ loaded.ok
           THEN Stop("SystemExit(1)") /\ UNCHANGED character_args_list
           ELSE IF \E i \in 1..Len(characters) : sex_gender_raises(characters[i])
           THEN Stop("AttributeError") /\ UNCHANGED character_args_list
           ELSE /\ character_args_list' =
                     [i \in 1..Len(characters) |->
                        with_overrides(extract_character_args(characters[i]), argv)]
                /\ pc' = "arguments"
                /\ UNCHANGED exit_status
  /\ UNCHANGED <<argv, environment, char_idx, locals, operations>>
  /\ UNCHANGED notMain

\* main.py lines 157-183, CLI mode
ReadCommandLine ==
  /\ pc = "main"
  /\ argv.mode = "cli"
  /\ IF ~ cli_complete(argv)
     THEN Stop("SystemExit(1)") /\ UNCHANGED character_args_list
     ELSE /\ character_args_list' = << cli_character_args(argv) >>
          /\ pc' = "arguments"
          /\ UNCHANGED exit_status
  /\ UNCHANGED <<argv, environment, file_result, char_idx, locals, operations>>
  /\ UNCHANGED notMain

\* main.py lines 185-225: the environment is read, the generator client and
\* the enhancer are constructed (no call is made by the constructors), and
\* the run exits when the configuration is incomplete
LoadEnvironment ==
  /\ pc = "arguments"
  /\ IF environment
     THEN pc' = "configured" /\ UNCHANGED exit_status
     ELSE Stop("SystemExit(configuration)")
  /\ UNCHANGED <<argv, environment, file_result, character_args_list, char_idx,
                 locals, operations>>
  /\ UNCHANGED notMain

\* main.py line 229: drive_service, docs_service = create_services(...)
CreateServices ==
  /\ pc = "configured"
  /\ \E ok \in BOOLEAN : Call("create_services", ok, [file |-> "credentials"], "connected")
  /\ UNCHANGED <<argv, environment, file_result, character_args_list, char_idx,
                 locals>>
  /\ UNCHANGED notMain

\* main.py line 234: template_text = get_template_text(...)
GetTemplateText ==
  /\ pc = "connected"
  /\ \E ok \in BOOLEAN : Call("get_template_text", ok, [template |-> "TEMPLATE_DOC_ID"], "loop")
  /\ UNCHANGED <<argv, environment, file_result, character_args_list, char_idx,
                 locals>>
  /\ UNCHANGED notMain

\* main.py line 240: the for statement takes the next character, or the run
\* is complete
NextCharacter ==
  /\ pc = "loop"
  /\ IF char_idx < Len(character_args_list)
     THEN /\ char_idx' = char_idx + 1
          /\ locals' = NoLocals
          /\ pc' = "character"
          /\ UNCHANGED exit_status
     ELSE /\ Stop("complete")
          /\ UNCHANGED <<char_idx, locals>>
  /\ UNCHANGED <<argv, environment, file_result, character_args_list, operations>>
  /\ UNCHANGED notMain

\* a slip: an answer that fails the validation gives no content
base_content_none_on_failure(json_output_mode, gemini_response) ==
  LET validation == validate_json_output(gemini_response)
      structured == py_bool(json_output_mode) /\ validation.ok
  IN [character_json |-> IF structured THEN validation.data ELSE None,
      filled_content |->
        IF structured THEN flatten_json_for_text(validation.data)
        ELSE IF py_bool(json_output_mode) THEN ""
        ELSE gemini_response]

\* main.py lines 341-358: character_json and filled_content; in JSON mode
\* the answer is validated and flattened, and used as it is when the
\* validation fails
base_content(json_output_mode, gemini_response) ==
  LET validation == validate_json_output(gemini_response)
      structured == py_bool(json_output_mode) /\ validation.ok
  IN [character_json |-> IF structured THEN validation.data ELSE None,
      filled_content |->
        IF structured THEN flatten_json_for_text(validation.data)
        ELSE gemini_response]

\* main.py lines 253-358: the prompt is built and given to the Text
\* Generator, its answer becomes the content of the character
GenerateBase ==
  /\ pc = "character"
  /\ LET json_output_mode ==
           IF dict_has(CharArgs, "json_output")
           THEN dict_get(CharArgs, "json_output") ELSE Bool(FALSE)
     IN \/ /\ Call("generate", FALSE,
                   [json_output_mode |-> json_output_mode, response |-> None],
                   "generated")
           /\ locals' = [locals EXCEPT !.json_output_mode = json_output_mode]
        \/ \E gemini_response \in BaseReplies(json_output_mode) :
             LET content == base_content(json_output_mode, gemini_response)
             IN /\ Call("generate", TRUE,
                        [json_output_mode |-> json_output_mode,
                         response |-> Str(gemini_response)],
                        "generated")
                /\ locals' =
                     [locals EXCEPT
                        !.json_output_mode = json_output_mode,
                        !.gemini_response = gemini_response,
                        !.character_json = content.character_json,
                        !.filled_content = content.filled_content]
  /\ UNCHANGED <<argv, environment, file_result, character_args_list, char_idx>>
  /\ UNCHANGED notMain

\* main.py lines 360-367: doc_id = create_doc(docs_service, doc_title)
CreateDoc ==
  /\ pc = "generated"
  /\ \E ok \in BOOLEAN :
       /\ Call("create_doc", ok, [title |-> doc_title(CharArgs)], "created")
       /\ locals' = [locals EXCEPT !.doc_id = IF ok THEN char_idx ELSE 0]
  /\ UNCHANGED <<argv, environment, file_result, character_args_list, char_idx>>
  /\ UNCHANGED notMain

\* main.py lines 369-372: insert_text(docs_service, doc_id, filled_content)
InsertText ==
  /\ pc = "created"
  /\ \E ok \in BOOLEAN :
       Call("insert_text", ok,
            [doc_id |-> locals.doc_id, text |-> locals.filled_content], "inserted")
  /\ UNCHANGED <<argv, environment, file_result, character_args_list, char_idx,
                 locals>>
  /\ UNCHANGED notMain

\* main.py lines 374-412, a D&D profile is requested: a level outside 1..20
\* is warned about, a subclass outside the list of the class is dropped,
\* then enhance_character checks its arguments and calls the Text Generator
EnhanceCharacter ==
  /\ pc = "inserted"
  /\ enhancement_requested(CharArgs)
  /\ LET species == py_get(CharArgs, "species")
         character_class == py_get(CharArgs, "character_class")
         level == py_get(CharArgs, "level")
         subclass == checked_subclass(character_class, py_get(CharArgs, "subclass"))
         error == enhancement_error(species, character_class, subclass)
         dnd == [species |-> species, character_class |-> character_class,
                 level |-> level, subclass |-> subclass]
         requested == [locals EXCEPT !.species = species,
                                     !.character_class = character_class,
                                     !.level = level,
                                     !.subclass = subclass]
     IN IF level.t # "num"
        THEN /\ Stop("TypeError")
             /\ locals' = [requested EXCEPT !.subclass = py_get(CharArgs, "subclass")]
             /\ UNCHANGED operations
        ELSE IF error # ""
        THEN /\ Stop("ValueError")
             /\ locals' = requested
             /\ UNCHANGED operations
        ELSE LET prompt == build_enhancement_prompt(locals.filled_content,
                             species.v, character_class.v, level.v, subclass)
                 call == [species |-> species, character_class |-> character_class,
                          level |-> level, subclass |-> subclass,
                          prompt |-> prompt]
             IN \/ /\ Call("enhance", FALSE, call, "enhanced")
                   /\ locals' = requested
                \/ \E enhanced_content \in EnhancementReplies :
                     /\ Call("enhance", TRUE, call, "enhanced")
                     /\ locals' = [requested EXCEPT
                                     !.enhanced_content = Str(enhanced_content)]
  /\ UNCHANGED <<argv, environment, file_result, character_args_list, char_idx>>
  /\ UNCHANGED notMain

\* main.py lines 374-381 and 434-435, no D&D profile is requested
SkipEnhancement ==
  /\ pc = "inserted"
  /\ ~ enhancement_requested(CharArgs)
  /\ locals' = [locals EXCEPT !.species = py_get(CharArgs, "species"),
                              !.character_class = py_get(CharArgs, "character_class"),
                              !.level = py_get(CharArgs, "level"),
                              !.subclass = py_get(CharArgs, "subclass")]
  /\ pc' = "final"
  /\ UNCHANGED <<argv, environment, file_result, character_args_list, char_idx,
                 operations, exit_status>>
  /\ UNCHANGED notMain

\* main.py lines 414-433: the content of the document is replaced by the
\* enhanced profile
ReplaceContent ==
  /\ pc = "enhanced"
  /\ \E ok \in BOOLEAN :
       Call("replace", ok,
            [doc_id |-> locals.doc_id, text |-> locals.enhanced_content.v], "final")
  /\ UNCHANGED <<argv, environment, file_result, character_args_list, char_idx,
                 locals>>
  /\ UNCHANGED notMain

\* main.py lines 437-456: CharacterCSVTracker(csv_path).append_record(...)
AppendCsv ==
  /\ pc = "final"
  /\ \E ok \in BOOLEAN :
       Call("append_record", ok,
            [name |-> dict_get(CharArgs, "name"),
             sex |-> py_get(CharArgs, "sex"),
             gender |-> py_get(CharArgs, "gender"),
             age_range |-> py_get(CharArgs, "age_range"),
             occupation |-> py_get(CharArgs, "occupation"),
             doc_url |-> get_doc_url(locals.doc_id),
             species |-> locals.species,
             character_class |-> locals.character_class,
             level |-> locals.level,
             subclass |-> locals.subclass],
            "summary written")
  /\ UNCHANGED <<argv, environment, file_result, character_args_list, char_idx,
                 locals>>
  /\ UNCHANGED notMain

\* main.py lines 458-475: append_character_json(...)
AppendJsonl ==
  /\ pc = "summary written"
  /\ \E ok \in BOOLEAN :
       Call("append_character_json", ok,
            [name |-> dict_get(CharArgs, "name"),
             sex |-> py_get(CharArgs, "sex"),
             gender |-> py_get(CharArgs, "gender"),
             age_range |-> py_get(CharArgs, "age_range"),
             occupation |-> py_get(CharArgs, "occupation"),
             doc_url |-> get_doc_url(locals.doc_id),
             filled_content |-> locals.filled_content,
             species |-> locals.species,
             character_class |-> locals.character_class,
             level |-> locals.level,
             subclass |-> locals.subclass,
             dnd_enhancement |-> locals.enhanced_content],
            "archive written")
  /\ UNCHANGED <<argv, environment, file_result, character_args_list, char_idx,
                 locals>>
  /\ UNCHANGED notMain

\* main.py lines 477-488: in JSON mode with a structured answer the
\* character's JSON file is written; the file name lowercases the name
SaveCharacterJson ==
  /\ pc = "archive written"
  /\ py_bool(locals.json_output_mode) /\ py_bool(locals.character_json)
  /\ IF dict_get(CharArgs, "name").t # "str"
     THEN Stop("AttributeError") /\ UNCHANGED operations
     ELSE \E ok \in BOOLEAN :
            Call("save_character_json", ok,
                 [file |-> str_replace(str_lower(dict_get(CharArgs, "name").v), " ", "_"),
                  character_json |-> locals.character_json],
                 "loop")
  /\ UNCHANGED <<argv, environment, file_result, character_args_list, char_idx,
                 locals>>
  /\ UNCHANGED notMain

\* main.py line 478, the condition is false: no file for this character
SkipCharacterJson ==
  /\ pc = "archive written"
  /\ ~ (py_bool(locals.json_output_mode) /\ py_bool(locals.character_json))
  /\ pc' = "loop"
  /\ UNCHANGED <<argv, environment, file_result, character_args_list, char_idx,
                 locals, operations, exit_status>>
  /\ UNCHANGED notMain

NextMain ==
  \/ LoadCharacterFile \/ ReadCommandLine \/ LoadEnvironment
  \/ CreateServices \/ GetTemplateText \/ NextCharacter
  \/ GenerateBase \/ CreateDoc \/ InsertText
  \/ EnhanceCharacter \/ SkipEnhancement \/ ReplaceContent
  \/ AppendCsv \/ AppendJsonl \/ SaveCharacterJson \/ SkipCharacterJson

SpecMain == InitMain /\ [][NextMain]_vars

(***************************************************************************)
(* Properties of the runs of main                                          *)
(***************************************************************************)
FileMode == argv.mode \in {"json", "jsonl"}

\* the records the input file holds, in file order: the elements of the
\* array or the one document of a JSON file, the lines of a JSONL file
FileRecords ==
  LET texts == SelectSeq(argv.file.entries,
                         LAMBDA entry : entry.t \notin {"blank", "malformed"})
  IN IF argv.mode = "json" /\ texts # << >> /\ texts[1].t = "list"
     THEN texts[1].v
     ELSE texts

\* what validate_character_input answers for each kind of record that is a
\* mapping, and the arguments extract_character_args derives from its
\* canonical record
RecordValidation ==
  [record \in {r \in RecordKinds : isinstance_dict(r)} |->
     validate_character_input(record.v)]

RecordArguments ==
  [record \in {r \in DOMAIN RecordValidation : RecordValidation[r].ok} |->
     extract_character_args(RecordValidation[record].record)]

RecordFails(record) ==
  \/ ~ isinstance_dict(record)
  \/ ~ RecordValidation[record].ok

SomeRecordFails ==
  /\ argv.file.exists
  /\ \E n \in 1..Len(FileRecords) : RecordFails(FileRecords[n])

\* C19: in file mode, when a record of the input file fails validation,
\* process_character_file returns failure with an empty character list, also
\* when earlier records are valid, and the run exits with status 1 before
\* any Template Source, Text Generator or Document Sink call and before any
\* history write
C19_InvalidRecordStopsRun ==
  FileMode /\ SomeRecordFails =>
    /\ operations = << >>
    /\ character_args_list = << >>
    /\ pc # "main" =>
         /\ ~ file_result.ok
         /\ file_result.characters = << >>
         /\ pc = "stopped"
         /\ exit_status = "SystemExit(1)"

\* a JSON array of the plain record and of a record without a name: the
\* failure names record 2, no character is returned and nothing was called
C19_Witness ==
  /\ argv.mode = "json"
  /\ argv.file = InputFile(<< List(<< PlainRecord, NamelessRecord >>) >>)
  /\ environment
  /\ pc = "stopped"
  /\ file_result =
       FileResult(FALSE,
                  Str("Record 2 validation failed: Missing mandatory field: "
                      \o MANDATORY_FIELDS[1].description),
                  << >>)
  /\ operations = << >>
  /\ exit_status = "SystemExit(1)"

\* the arguments of the n-th character as the input gives them
InputArguments(n) ==
  IF argv.mode = "cli" THEN cli_character_args(argv)
  ELSE with_overrides(RecordArguments[FileRecords[n]], argv)

Ops == 1..Len(operations)

IsWrite(i, op, k) ==
  /\ operations[i].op = op
  /\ operations[i].char = k
  /\ operations[i].ok

\* both history records of character k were written before operation i
HistoryWritten(k, i) ==
  \E a, b \in 1..(i - 1) :
    /\ a < b
    /\ IsWrite(a, "append_record", k)
    /\ IsWrite(b, "append_character_json", k)

\* the records written by op are those of the characters 1, 2, ... of the
\* input, in this order
HistoryInInputOrder(op) ==
  LET written == SelectSeq(operations, LAMBDA o : o.op = op /\ o.ok)
  IN \A n \in 1..Len(written) :
       LET given == InputArguments(n)
       IN /\ written[n].char = n
          /\ written[n].data.name = dict_get(given, "name")
          /\ written[n].data.occupation = py_get(given, "occupation")
          /\ written[n].data.species = py_get(given, "species")

\* C20: a batch is processed one character at a time in input order: no
\* operation for character k+1 before both history writes of character k,
\* history records in input order, and a call that fails is the last
\* operation of the run: nothing is done for a later character and no call
\* is made twice
C20_SequentialNoRetry ==
  /\ \A i, j \in Ops : i < j => operations[i].char <= operations[j].char
  /\ \A i \in Ops : operations[i].char <= char_idx
  /\ \A i \in Ops :
       operations[i].char > 1 => HistoryWritten(operations[i].char - 1, i)
  /\ HistoryInInputOrder("append_record")
  /\ HistoryInInputOrder("append_character_json")
  /\ \A i \in Ops :
       ~ operations[i].ok =>
         /\ i = Len(operations)
         /\ pc = "stopped"
         /\ exit_status = "raised"
  /\ \A i, j \in Ops :
       i # j => ~ (/\ operations[i].op = operations[j].op
                   /\ operations[i].char = operations[j].char)
  /\ exit_status # "running" => pc = "stopped"

\* a JSONL file of the plain record and of the Elf Wizard: the first
\* character is written to both histories, then the enhancement call of the
\* second fails: its document is left as it was and it has no history record
C20_Witness ==
  /\ argv.mode = "jsonl"
  /\ argv.file = InputFile(<< PlainRecord, DndRecord >>)
  /\ argv.species = None
  /\ pc = "stopped"
  /\ exit_status = "raised"
  /\ char_idx = 2
  /\ Len(operations) = 11
  /\ [i \in 1..11 |-> <<operations[i].op, operations[i].char, operations[i].ok>>] =
       << <<"create_services", 0, TRUE>>, <<"get_template_text", 0, TRUE>>,
          <<"generate", 1, TRUE>>, <<"create_doc", 1, TRUE>>,
          <<"insert_text", 1, TRUE>>, <<"append_record", 1, TRUE>>,
          <<"append_character_json", 1, TRUE>>,
          <<"generate", 2, TRUE>>, <<"create_doc", 2, TRUE>>,
          <<"insert_text", 2, TRUE>>, <<"enhance", 2, FALSE>> >>

(***************************************************************************)
(* The history files: the summary table of csv_tracker.py and the archive *)
(* of json_tracker.py.  A file is its text; csv.DictWriter, csv.DictReader,*)
(* json.dump and json.loads act on that text.                              *)
(***************************************************************************)
HEADERS ==
  <<"name", "sex", "gender", "age_range", "occupation",
    "species", "class", "subclass", "level", "doc_url", "created_at">>

\* datetime.utcnow().isoformat(), the clock standing still
utcnow == "2024-01-01T00:00:00"

contains(s, c) == find(s, c, 1) # 0

\* what csv.writer writes for one value: None as '', a string as it is,
\* anything else through str()
csv_text(x) == IF x.t = "null" THEN "" ELSE py_str(x)

\* QUOTE_MINIMAL of the excel dialect: a field holding the delimiter, the
\* quote character or a line end goes between quotes, its quotes doubled
csv_quote(field) ==
  IF \E c \in {",", "\"", "\r", "\n"} : contains(field, c)
  THEN "\"" \o str_replace(field, "\"", "\"\"") \o "\""
  ELSE field

RECURSIVE csv_join(_, _)
csv_join(cells, i) ==
  IF i > Len(cells) THEN ""
  ELSE (IF i > 1 THEN "," ELSE "") \o csv_quote(cells[i]) \o csv_join(cells, i + 1)

\* csv.writer.writerow: the cells, a comma between them, "\r\n" after them
writerow(cells) == csv_join(cells, 1) \o "\r\n"

\* DictWriter.writeheader and DictWriter.writerow(row) with fieldnames=HEADERS
writeheader == writerow(HEADERS)
dict_writerow(row) ==
  writerow([i \in 1..Len(HEADERS) |-> csv_text(py_get(row, HEADERS[i]))])

\* the length of the line end at position i of the text, 0 if there is none
eol(text, i) ==
  IF At(text, i) = "\r" THEN (IF At(text, i + 1) = "\n" THEN 2 ELSE 1)
  ELSE IF At(text, i) = "\n" THEN 1 ELSE 0

\* one field of csv.reader from position i on: its text, the position of
\* what ends it, and whether that is a comma
RECURSIVE scan_field(_, _, _, _)
scan_field(text, i, state, field) ==
  LET c == At(text, i)
      ends == c \in {",", "\r", "\n", ""}
      done == [field |-> field, i |-> i, comma |-> c = ","]
  IN IF c = "" THEN done
     ELSE CASE state = "START_FIELD" ->
                 IF ends THEN done
                 ELSE IF c = "\"" THEN scan_field(text, i + 1, "IN_QUOTED_FIELD", "")
                 ELSE scan_field(text, i + 1, "IN_FIELD", c)
            [] state = "IN_FIELD" ->
                 IF ends THEN done
                 ELSE scan_field(text, i + 1, "IN_FIELD", field \o c)
            [] state = "IN_QUOTED_FIELD" ->
                 IF c = "\"" THEN scan_field(text, i + 1, "QUOTE_IN_QUOTED_FIELD", field)
                 ELSE scan_field(text, i + 1, "IN_QUOTED_FIELD", field \o c)
            [] state = "QUOTE_IN_QUOTED_FIELD" ->
                 IF c = "\"" THEN scan_field(text, i + 1, "IN_QUOTED_FIELD", field \o c)
                 ELSE IF ends THEN done
                 ELSE scan_field(text, i + 1, "IN_FIELD", field \o c)

\* one row of csv.reader from position i on, and the position after its
\* line end
RECURSIVE scan_row(_, _, _)
scan_row(text, i, row) ==
  LET f == scan_field(text, i, "START_FIELD", "")
  IN IF f.comma THEN scan_row(text, f.i + 1, Append(row, f.field))
     ELSE [row |-> Append(row, f.field), i |-> f.i + eol(text, f.i)]

\* csv.reader over a file opened with newline='': the rows of the text, a
\* blank line being a row of no cells
RECURSIVE csv_reader(_, _, _)
csv_reader(text, i, rows) ==
  IF i > Len(text) THEN rows
  ELSE IF eol(text, i) > 0
       THEN csv_reader(text, i + eol(text, i), Append(rows, << >>))
       ELSE LET r == scan_row(text, i, << >>)
            IN csv_reader(text, r.i, Append(rows, r.row))

csv_rows(text) == csv_reader(text, 1, << >>)

\* one row of csv.DictReader: the cells under the field names, None under a
\* name that has no cell, the cells beyond the names in a list under restkey
RESTKEY == "None"
reader_row(fieldnames, cells) ==
  LET named == [i \in 1..Len(fieldnames) |->
                  Item(fieldnames[i],
                       IF i <= Len(cells) THEN Str(cells[i]) ELSE None)]
  IN IF Len(cells) > Len(fieldnames)
     THEN Append(named,
                 Item(RESTKEY,
                      List([i \in 1..(Len(cells) - Len(fieldnames)) |->
                              Str(cells[Len(fieldnames) + i])])))
     ELSE named

RECURSIVE reader_rows(_, _, _, _)
reader_rows(fieldnames, rows, i, records) ==
  IF i > Len(rows) THEN records
  ELSE reader_rows(fieldnames, rows, i + 1,
                   IF rows[i] = << >> THEN records
                   ELSE Append(records, Dict(reader_row(fieldnames, rows[i]))))

\* list(csv.DictReader(fh)): the first row names the fields, blank rows
\* after it are passed over
DictReader(text) ==
  LET rows == csv_rows(text)
  IN IF rows = << >> THEN << >> ELSE reader_rows(rows[1], rows, 2, << >>)

\* the inside of a JSON string as json.dump(..., ensure_ascii=False) writes it
RECURSIVE json_escape(_)
json_escape(s) ==
  IF s = "" THEN ""
  ELSE LET c == At(s, 1)
       IN (IF c = "\"" THEN "\\\""
           ELSE IF c = "\\" THEN "\\\\"
           ELSE IF c = "\n" THEN "\\n"
           ELSE IF c = "\r" THEN "\\r"
           ELSE IF c = TAB THEN "\\t"
           ELSE c) \o json_escape(Tail(s))

RECURSIVE Spaces2(_)
Spaces2(depth) == IF depth = 0 THEN "" ELSE "  " \o Spaces2(depth - 1)

\* json.dumps(x) when indent is -1, json.dumps(x, indent=2) when indent is
\* the depth of x in the document
RECURSIVE json_dumps_at(_, _)
RECURSIVE json_members(_, _, _, _)
json_members(members, is_dict, i, indent) ==
  IF i > Len(members) THEN ""
  ELSE (IF i = 1 THEN ""
        ELSE IF indent < 0 THEN ", "
        ELSE ",")
       \o (IF indent < 0 THEN "" ELSE "\n" \o Spaces2(indent))
       \o (IF is_dict
           THEN "\"" \o json_escape(members[i].k) \o "\": "
                \o json_dumps_at(members[i].v, indent)
           ELSE json_dumps_at(members[i], indent))
       \o json_members(members, is_dict, i + 1, indent)

json_dumps_at(x, indent) ==
  LET inner == IF indent < 0 THEN indent ELSE indent + 1
      close == IF indent < 0 THEN "" ELSE "\n" \o Spaces2(indent)
  IN CASE x.t = "null" -> "null"
       [] x.t = "bool" -> IF x.v THEN "true" ELSE "false"
       [] x.t = "num" -> int_str(x.v)
       [] x.t = "str" -> "\"" \o json_escape(x.v) \o "\""
       [] x.t = "list" ->
            IF x.v = << >> THEN "[]"
            ELSE "[" \o json_members(x.v, FALSE, 1, inner) \o close \o "]"
       [] x.t = "dict" ->
            IF x.v = << >> THEN "{}"
            ELSE "{" \o json_members(x.v, TRUE, 1, inner) \o close \o "}"

json_dumps(x) == json_dumps_at(x, 0 - 1)
json_dumps_indent2(x) == json_dumps_at(x, 0)

\* the lines of a text file read in text mode, their line ends left out
RECURSIVE text_lines(_, _, _)
text_lines(text, i, lines) ==
  IF i > Len(text) THEN lines
  ELSE LET ends == {j \in i..Len(text) : eol(text, j) > 0}
           end == IF ends = {} THEN Len(text) + 1
                  ELSE CHOOSE j \in ends : \A k \in ends : j <= k
       IN text_lines(text, end + eol(text, end), Append(lines, SubSeq(text, i, end - 1)))

\* "for line in fh: if line.strip(): json.loads(line)": the records of the
\* archive up to the first line that is no JSON text, and whether one was met
RECURSIVE jsonl_records(_, _, _)
jsonl_records(lines, i, records) ==
  IF i > Len(lines) THEN [ok |-> TRUE, records |-> records]
  ELSE IF str_strip(lines[i]) = "" THEN jsonl_records(lines, i + 1, records)
  ELSE LET record == json_loads(lines[i])
       IN IF record.ok THEN jsonl_records(lines, i + 1, Append(records, record.v))
          ELSE [ok |-> FALSE, records |-> records]

read_jsonl(text) == jsonl_records(text_lines(text, 1, << >>), 1, << >>)

\* the record append_character_json builds
archive_record(a) ==
  LET metadata ==
        <<Item("created_at", Str(utcnow)),
          Item("name", a.name),
          Item("inputs", Dict(<<Item("sex", a.sex), Item("gender", a.gender),
                                Item("age_range", a.age_range),
                                Item("occupation", a.occupation)>>)),
          Item("doc_url", a.doc_url)>>
      dnd == Dict(<<Item("species", a.species), Item("class", a.character_class),
                    Item("subclass", a.subclass), Item("level", a.level)>>)
      has_dnd == py_bool(a.species) \/ py_bool(a.character_class)
                 \/ py_bool(a.level) \/ py_bool(a.subclass)
  IN Dict(<<Item("metadata",
                 Dict(IF has_dnd THEN Append(metadata, Item("dnd", dnd))
                      ELSE metadata)),
            Item("ai_output",
                 Dict(<<Item("base_character", a.filled_content),
                        Item("dnd_enhancement", a.dnd_enhancement)>>))>>)

\* x or ''
or_empty(x) == IF py_bool(x) THEN x ELSE Str("")

\* a slip: an absent level is written as it is given
summary_row_level_as_given(a) ==
  <<Item("name", a.name), Item("sex", a.sex), Item("gender", a.gender),
    Item("age_range", a.age_range), Item("occupation", a.occupation),
    Item("species", or_empty(a.species)),
    Item("class", or_empty(a.character_class)),
    Item("subclass", or_empty(a.subclass)),
    Item("level", IF a.level.t = "null" THEN Str("None") ELSE a.level),
    Item("doc_url", a.doc_url), Item("created_at", Str(utcnow))>>

\* the row append_record builds
summary_row(a) ==
  <<Item("name", a.name), Item("sex", a.sex), Item("gender", a.gender),
    Item("age_range", a.age_range), Item("occupation", a.occupation),
    Item("species", or_empty(a.species)),
    Item("class", or_empty(a.character_class)),
    Item("subclass", or_empty(a.subclass)),
    Item("level", or_empty(a.level)),
    Item("doc_url", a.doc_url), Item("created_at", Str(utcnow))>>

\* the files the operations are given
CsvPath == "characters.csv"
JsonlPath == "characters.jsonl"
ExportPath == "characters.json"
Paths == {CsvPath, JsonlPath, ExportPath}
HistoryPaths == {CsvPath, JsonlPath}

exists(fs, path) == fs[path] # None

\* open(path, 'w') and one write: the text replaces what the file held
open_w(fs, path, text) == [fs EXCEPT ![path] = Str(text)]

\* a slip: the file is opened for writing, not for appending
open_a_truncating(fs, path, text) == [fs EXCEPT ![path] = Str(text)]

\* open(path, 'a') and one write: the text goes after what the file holds
open_a(fs, path, text) ==
  [fs EXCEPT ![path] = IF exists(fs, path) THEN Str(fs[path].v \o text) ELSE Str(text)]

\* CharacterCSVTracker.__init__ and _ensure_file_exists
ensure_file_exists(fs, csv_path) ==
  IF ~ exists(fs, csv_path) THEN open_w(fs, csv_path, writeheader) ELSE fs

append_record(fs, csv_path, a) ==
  open_a(fs, csv_path, dict_writerow(summary_row(a)))

get_all_records(fs, csv_path) ==
  IF ~ exists(fs, csv_path) THEN << >> ELSE DictReader(fs[csv_path].v)

get_record_count(fs, csv_path) == Len(get_all_records(fs, csv_path))

\* r.get(key, '').lower() == text.lower(); a value that is no string has
\* no lower()
LowerRaises(records, key) ==
  \E i \in 1..Len(records) :
    dict_has(records[i].v, key) /\ dict_get(records[i].v, key).t # "str"
lower_is(record, key, text) ==
  LET value == IF dict_has(record.v, key) THEN dict_get(record.v, key) ELSE Str("")
  IN value.t = "str" /\ str_lower(value.v) = str_lower(text)

RECURSIVE first_by_name(_, _, _)
first_by_name(records, name, i) ==
  IF i > Len(records) THEN None
  ELSE IF dict_has(records[i].v, "name") /\ dict_get(records[i].v, "name").t # "str"
       THEN Str("AttributeError")
  ELSE IF lower_is(records[i], "name", name) THEN records[i]
  ELSE first_by_name(records, name, i + 1)

RECURSIVE matching(_, _, _, _)
matching(records, key, text, i) ==
  IF i > Len(records) THEN << >>
  ELSE (IF lower_is(records[i], key, text) THEN <<records[i]>> ELSE << >>)
       \o matching(records, key, text, i + 1)

records_by(fs, csv_path, key, text) ==
  LET records == get_all_records(fs, csv_path)
  IN IF LowerRaises(records, key) THEN Str("AttributeError")
     ELSE List(matching(records, key, text, 1))

get_records_by_species(fs, csv_path, species) == records_by(fs, csv_path, "species", species)
get_records_by_class(fs, csv_path, character_class) ==
  records_by(fs, csv_path, "class", character_class)

clear_all_records(fs, csv_path) == open_w(fs, csv_path, writeheader)

\* the module-level append_character_record: a tracker and one append_record
append_character_record(fs, csv_path, a) ==
  append_record(ensure_file_exists(fs, csv_path), csv_path, a)

append_character_json(fs, json_path, a) ==
  open_a(fs, json_path, json_dumps(archive_record(a)) \o "\n")

\* export_characters_to_json: nothing without the archive, nothing written
\* when a line of the archive is no JSON text
export_characters_to_json(fs, jsonl_path, output_json_path) ==
  IF ~ exists(fs, jsonl_path) THEN fs
  ELSE LET read == read_jsonl(fs[jsonl_path].v)
       IN IF ~ read.ok THEN fs
          ELSE open_w(fs, output_json_path, json_dumps_indent2(List(read.records)))

\* record.get('metadata', {}).get('name') == name, the first such record
RECURSIVE first_archived(_, _, _)
first_archived(records, name, i) ==
  IF i > Len(records) THEN None
  ELSE IF records[i].t # "dict" THEN Str("AttributeError")
  ELSE LET metadata == IF dict_has(records[i].v, "metadata")
                       THEN dict_get(records[i].v, "metadata") ELSE Dict(EmptyDict)
       IN IF metadata.t # "dict" THEN Str("AttributeError")
          ELSE IF py_get(metadata.v, "name") = Str(name) THEN records[i]
          ELSE first_archived(records, name, i + 1)

archived_by_name(fs, jsonl_path, name) ==
  IF ~ exists(fs, jsonl_path) THEN None
  ELSE LET read == read_jsonl(fs[jsonl_path].v)
           found == first_archived(read.records, name, 1)
       IN IF found = None /\ ~ read.ok THEN Str("JSONDecodeError") ELSE found

\* list_characters: name, created_at, dnd and doc_url of the first limit
\* records, of all of them when limit is None or 0
listed(record) ==
  LET metadata == py_get(record.v, "metadata").v
  IN Dict(<<Item("name", py_get(metadata, "name")),
            Item("created_at", py_get(metadata, "created_at")),
            Item("dnd", py_get(metadata, "dnd")),
            Item("doc_url", py_get(metadata, "doc_url"))>>)

list_characters(fs, jsonl_path, limit) ==
  IF ~ exists(fs, jsonl_path) THEN List(<< >>)
  ELSE LET read == read_jsonl(fs[jsonl_path].v)
           limited == py_bool(limit) /\ limit.v <= Len(read.records)
           n == IF limited THEN limit.v ELSE Len(read.records)
       IN IF ~ read.ok /\ ~ limited THEN Str("JSONDecodeError")
          ELSE List([i \in 1..n |-> listed(read.records[i])])

(***************************************************************************)
(* Runs of the record writers: trackers built at any time, up to MaxWrites *)
(* appends, clears and exports in any order, and the lookups between them  *)
(***************************************************************************)
MaxWrites == 2

Arguments(name, species, character_class, level, subclass, filled_content,
          dnd_enhancement) ==
  [name |-> name, sex |-> Str("male"), gender |-> Str("he/him"),
   age_range |-> Str("adult"), occupation |-> Str("blacksmith"),
   doc_url |-> Str("https://docs/1"), species |-> species,
   character_class |-> character_class, level |-> level, subclass |-> subclass,
   filled_content |-> filled_content, dnd_enhancement |-> dnd_enhancement]

PlainArguments ==
  Arguments(Str("Bram"), None, None, None, None, Str("Bram is a smith."), None)
DndArguments ==
  Arguments(Str("Ann, \"the\" Bold"), Str("Elf"), Str("Wizard"), Num(3),
            Str("Evocation"), Str("Ann:\nbold"), Str("ENHANCED"))
OddArguments ==
  Arguments(Str("a\nb"), Str(""), Str("Rogue"), Num(0), None, Str(""), None)

RowArguments == {PlainArguments, DndArguments, OddArguments}
ArchiveArguments == {PlainArguments, DndArguments}
LookupNames == {"bram", "Bram"}

Written(op, path, a) == [op |-> op, path |-> path, args |-> a]
NoArgs == [name |-> None]

InitHistory ==
  /\ IdleOutsideHistory
  /\ pc = "history"
  /\ files = [path \in Paths |-> None]
  /\ trackers = {}
  /\ answer = None
  /\ writes = << >>

\* an append, a clear or an export: the files after it
Write(op, path, a, fs) ==
  /\ pc = "history"
  /\ Len(writes) < MaxWrites
  /\ files' = fs
  /\ answer' = None
  /\ writes' = Append(writes, Written(op, path, a))
  /\ UNCHANGED <<pc, notHistory>>

\* a lookup
Read(value) ==
  /\ pc = "history"
  /\ answer' = value
  /\ UNCHANGED <<pc, files, trackers, writes, notHistory>>

Construct ==
  /\ pc = "history"
  /\ files' = ensure_file_exists(files, CsvPath)
  /\ trackers' = trackers \cup {CsvPath}
  /\ answer' = None
  /\ UNCHANGED <<pc, writes, notHistory>>

AppendRecord ==
  \E path \in trackers, a \in RowArguments :
    /\ Write("append_record", path, a, append_record(files, path, a))
    /\ UNCHANGED trackers

ClearAllRecords ==
  \E path \in trackers :
    /\ Write("clear_all_records", path, NoArgs, clear_all_records(files, path))
    /\ UNCHANGED trackers

AppendCharacterRecord ==
  /\ Write("append_character_record", CsvPath, PlainArguments,
           append_character_record(files, CsvPath, PlainArguments))
  /\ UNCHANGED trackers

AppendCharacterJson ==
  \E a \in ArchiveArguments :
    /\ Write("append_character_json", JsonlPath, a,
             append_character_json(files, JsonlPath, a))
    /\ UNCHANGED trackers

ExportCharactersToJson ==
  \E output_json_path \in {ExportPath, JsonlPath} :
    /\ Write("export_characters_to_json", output_json_path, NoArgs,
             export_characters_to_json(files, JsonlPath, output_json_path))
    /\ UNCHANGED trackers

GetAllRecords ==
  \E path \in trackers : Read(List(get_all_records(files, path)))

GetRecordCount ==
  \E path \in trackers : Read(Num(get_record_count(files, path)))

GetCharacterByName ==
  \E path \in trackers :
    LET records == get_all_records(files, path)
    IN \E name \in LookupNames : Read(first_by_name(records, name, 1))

GetRecordsBySpecies ==
  \E path \in trackers : Read(get_records_by_species(files, path, "elf"))

GetRecordsByClass ==
  \E path \in trackers : Read(get_records_by_class(files, path, "ROGUE"))

ArchivedByName ==
  \E name \in LookupNames : Read(archived_by_name(files, JsonlPath, name))

ListCharacters ==
  \E limit \in {None, Num(1)} : Read(list_characters(files, JsonlPath, limit))

NextHistory ==
  \/ Construct
  \/ AppendRecord
  \/ ClearAllRecords
  \/ AppendCharacterRecord
  \/ AppendCharacterJson
  \/ ExportCharactersToJson
  \/ GetAllRecords
  \/ GetRecordCount
  \/ GetCharacterByName
  \/ GetRecordsBySpecies
  \/ GetRecordsByClass
  \/ ArchivedByName
  \/ ListCharacters

SpecHistory == InitHistory /\ [][NextHistory]_vars

(***************************************************************************)
(* The history files under the record writers                              *)
(***************************************************************************)
\* what the history files of fs1 hold is in fs2, at the same place
Kept(fs1, fs2) ==
  \A path \in HistoryPaths :
    exists(fs1, path) =>
      /\ exists(fs2, path)
      /\ Len(fs2[path].v) >= Len(fs1[path].v)
      /\ SubSeq(fs2[path].v, 1, Len(fs1[path].v)) = fs1[path].v

\* C21 as stated: whatever the record writer operation, what a history
\* file holds is never modified or removed
C21_AppendOnly == [][Kept(files, files')]_vars

\* the step is clear_all_records, or an export whose output is a history file
Overwriting(before, after) ==
  /\ Len(after) = Len(before) + 1
  /\ LET last == after[Len(after)]
     IN \/ last.op = "clear_all_records"
        \/ last.op = "export_characters_to_json" /\ last.path \in HistoryPaths

\* C21, amended: a record written to a history file is never modified or
\* removed by a tracker construction, an append, a lookup or an export to
\* another file; clear_all_records and an export onto a history file
\* replace what the file held
C21_AppendOnlyButClearAndExportOver ==
  [][~ Overwriting(writes, writes') => Kept(files, files')]_vars

\* two records in each history file, both still there after the lookups
C21_Witness ==
  /\ pc = "history"
  /\ writes = <<Written("append_character_record", CsvPath, PlainArguments),
                Written("append_character_json", JsonlPath, DndArguments)>>
  /\ files[CsvPath] = Str(writeheader \o dict_writerow(summary_row(PlainArguments)))
  /\ files[JsonlPath] = Str(json_dumps(archive_record(DndArguments)) \o "\n")
  /\ trackers = {CsvPath}
  /\ answer = Num(1)

\* the appends made on the summary table, in order
RECURSIVE RowsAppended(_, _)
RowsAppended(log, i) ==
  IF i > Len(log) THEN << >>
  ELSE (IF log[i].path = CsvPath
           /\ log[i].op \in {"append_record", "append_character_record"}
        THEN <<log[i].args>> ELSE << >>) \o RowsAppended(log, i + 1)

\* nothing but constructions and appends has written the summary table
OnlyAppends ==
  \A i \in 1..Len(writes) :
    writes[i].path = CsvPath =>
      writes[i].op \in {"append_record", "append_character_record"}

Column(name) == CHOOSE i \in 1..Len(HEADERS) : HEADERS[i] = name

\* the row holds what the append was given, nothing where a D&D value is absent
RowOf(cells, a) ==
  /\ Len(cells) = Len(HEADERS)
  /\ cells[Column("name")] = a.name.v
  /\ cells[Column("sex")] = a.sex.v
  /\ cells[Column("gender")] = a.gender.v
  /\ cells[Column("age_range")] = a.age_range.v
  /\ cells[Column("occupation")] = a.occupation.v
  /\ cells[Column("doc_url")] = a.doc_url.v
  /\ cells[Column("created_at")] = utcnow
  /\ cells[Column("species")] = (IF a.species = None THEN "" ELSE a.species.v)
  /\ cells[Column("class")]
       = (IF a.character_class = None THEN "" ELSE a.character_class.v)
  /\ cells[Column("subclass")] = (IF a.subclass = None THEN "" ELSE a.subclass.v)
  /\ a.level = None => cells[Column("level")] = ""
  /\ (a.level.t = "num" /\ a.level.v # 0) => cells[Column("level")] = int_str(a.level.v)

\* C22: after constructions and appends on one path that held no file, the
\* file is the header row of the 11 columns and then one row for each
\* append, in the order of the appends; get_record_count is the number of
\* appends; an absent species, class, subclass or level is an empty cell
C22_HeaderOnceRowPerAppend ==
  (pc = "history" /\ OnlyAppends) =>
    LET appended == RowsAppended(writes, 1)
    IN IF ~ exists(files, CsvPath) THEN appended = << >> /\ trackers = {}
       ELSE LET rows == csv_rows(files[CsvPath].v)
            IN /\ rows[1] = HEADERS
               /\ Len(rows) = 1 + Len(appended)
               /\ \A i \in 1..Len(appended) : RowOf(rows[i + 1], appended[i])
               /\ get_record_count(files, CsvPath) = Len(appended)

\* a row with a quoted name and D&D values after a row without D&D values,
\* and get_record_count has answered
C22_Witness ==
  /\ pc = "history"
  /\ writes = <<Written("append_character_record", CsvPath, PlainArguments),
                Written("append_record", CsvPath, DndArguments)>>
  /\ csv_rows(files[CsvPath].v)
       = <<HEADERS,
           <<"Bram", "male", "he/him", "adult", "blacksmith", "", "", "", "",
             "https://docs/1", utcnow>>,
           <<"Ann, \"the\" Bold", "male", "he/him", "adult", "blacksmith", "Elf",
             "Wizard", "Evocation", "3", "https://docs/1", utcnow>> >>
  /\ answer = Num(2)

(***************************************************************************)
(* Properties of the runs of main, continued                               *)
(***************************************************************************)
\* whether validate_json_output accepts each answer of the Text Generator
AllBaseReplies == BaseReplies(Bool(TRUE)) \cup BaseReplies(Bool(FALSE))
ReplyValidates == [reply \in AllBaseReplies |-> validate_json_output(reply).ok]

\* operation i is the answered base generation of a character in JSON mode
\* whose answer fails validate_json_output
IsFallback(i) ==
  /\ operations[i].op = "generate"
  /\ operations[i].ok
  /\ py_bool(operations[i].data.json_output_mode)
  /\ ~ ReplyValidates[operations[i].data.response.v]

\* operation i is the answered base generation of a character in JSON mode
\* whose answer validate_json_output accepts
IsStructured(i) ==
  /\ operations[i].op = "generate"
  /\ operations[i].ok
  /\ py_bool(operations[i].data.json_output_mode)
  /\ ReplyValidates[operations[i].data.response.v]

\* every call of character k has returned and the loop has left character k
Finished(k) ==
  /\ \A i \in Ops : operations[i].char = k => operations[i].ok
  /\ \/ char_idx > k
     \/ char_idx = k /\ pc = "loop"
     \/ exit_status = "complete"

\* C23: in JSON output mode an answer that fails validate_json_output does
\* not abort the run: the raw answer is the content inserted in the document
\* and the base_character of the archive record, the document is created,
\* both history records are written, no JSON file of the character is
\* saved and the run goes on; a JSON file is saved only in JSON mode for an
\* answer that passed the validation
C23_JsonFallback ==
  /\ \A i \in Ops :
       IsFallback(i) =>
         LET k == operations[i].char
             raw == operations[i].data.response
         IN /\ i = Len(operations) => pc = "generated" /\ exit_status = "running"
            /\ i < Len(operations) => operations[i + 1].op = "create_doc"
            /\ \A j \in Ops :
                 operations[j].char = k =>
                   /\ operations[j].op = "insert_text" => operations[j].data.text = raw.v
                   /\ operations[j].op = "append_character_json"
                        => operations[j].data.filled_content = raw.v
                   /\ operations[j].op # "save_character_json"
            /\ Finished(k) =>
                 /\ \E j \in Ops : IsWrite(j, "create_doc", k)
                 /\ \E j \in Ops : IsWrite(j, "append_record", k)
                 /\ \E j \in Ops : IsWrite(j, "append_character_json", k)
            /\ IsWrite(Len(operations), "append_character_json", k) =>
                 /\ exit_status \in {"running", "complete"}
                 /\ pc \in {"archive written", "loop", "character", "stopped"}
  /\ \A j \in Ops :
       operations[j].op = "save_character_json" =>
         \E i \in 1..(j - 1) : IsStructured(i) /\ operations[i].char = operations[j].char

\* a command line with --json_output: the answer holds no JSON text, the
\* document and both history records carry it as it is, no JSON file is
\* saved and the run is complete
C23_Witness ==
  /\ argv.mode = "cli"
  /\ argv.json_output = Bool(TRUE)
  /\ argv.species = None
  /\ exit_status = "complete"
  /\ Len(operations) = 7
  /\ [i \in 1..7 |-> <<operations[i].op, operations[i].ok>>] =
       << <<"create_services", TRUE>>, <<"get_template_text", TRUE>>,
          <<"generate", TRUE>>, <<"create_doc", TRUE>>, <<"insert_text", TRUE>>,
          <<"append_record", TRUE>>, <<"append_character_json", TRUE>> >>
  /\ operations[3].data.json_output_mode = Bool(TRUE)
  /\ operations[3].data.response = Str("Bram is a smith.")
  /\ operations[5].data.text = "Bram is a smith."
  /\ operations[7].data.filled_content = "Bram is a smith."

\* the command line gives a valid species and class and an integer level
\* outside 1..20
LevelOutOfRange ==
  /\ argv.species # None
  /\ argv.character_class # None
  /\ argv.level.t = "num"
  /\ argv.level.v \notin 1..20

\* the level cell of the row append_record writes for the arguments it got
RowLevel(data) ==
  csv_text(dict_get(summary_row([data EXCEPT !.doc_url = Str(data.doc_url)]), "level"))

\* the level of the record append_character_json writes, None when the
\* record has no D&D block
ArchiveLevel(data) ==
  LET record == archive_record([data EXCEPT !.doc_url = Str(data.doc_url),
                                            !.filled_content = Str(data.filled_content)])
      metadata == dict_get(record.v, "metadata").v
  IN IF dict_has(metadata, "dnd") THEN dict_get(dict_get(metadata, "dnd").v, "level")
     ELSE None

\* the enhancement call follows the insertion of the base text and carries
\* the level of the command line, and so do both history records
LevelUsedAsIs ==
  \A i \in Ops :
    /\ IsWrite(i, "insert_text", operations[i].char) =>
         /\ i = Len(operations) => pc = "inserted"
         /\ i < Len(operations) =>
              /\ operations[i + 1].op = "enhance"
              /\ operations[i + 1].data.level = argv.level
    /\ operations[i].op = "append_record" =>
         RowLevel(operations[i].data) = int_str(argv.level.v)
    /\ operations[i].op = "append_character_json" =>
         ArchiveLevel(operations[i].data) = argv.level

\* C24: for any integer level outside 1..20 given with a valid species and
\* class on the command line (CLI mode or file-mode override) the level is
\* only warned about and used as it is: the enhancement call is issued with
\* exactly that level, and the CSV row and the JSONL record carry it unchanged
C24_LevelWarnedUsedAsIs == LevelOutOfRange => LevelUsedAsIs

\* the same for the levels other than 0, which the code does use as they are
C24_NonZeroLevelUsedAsIs == (LevelOutOfRange /\ argv.level.v # 0) => LevelUsedAsIs

\* --species Elf --class Wizard --level 0: after the base text is inserted no
\* enhancement call is made, the CSV row has an empty level cell, the run
\* is complete
C24_LevelZeroSkipsEnhancement ==
  /\ argv.mode = "cli"
  /\ argv.level = Num(0)
  /\ exit_status = "complete"
  /\ \A i \in Ops : operations[i].op # "enhance"
  /\ \E i \in Ops : /\ IsWrite(i, "append_record", 1)
                    /\ RowLevel(operations[i].data) = ""
  /\ \E i \in Ops : /\ IsWrite(i, "append_character_json", 1)
                    /\ ArchiveLevel(operations[i].data) = Num(0)

\* the command line asks for a D&D profile with a valid species and class
\* and a subclass outside the list of the class
InvalidSubclassRequested ==
  /\ argv.species # None /\ is_valid_species(argv.species.v)
  /\ argv.character_class # None /\ is_valid_class(argv.character_class.v)
  /\ argv.level.t = "num"
  /\ argv.subclass # None
  /\ ~ in_list(argv.subclass.v, valid_subclasses(argv.character_class))

RowSubclass(data) ==
  csv_text(dict_get(summary_row([data EXCEPT !.doc_url = Str(data.doc_url)]), "subclass"))

ArchiveSubclass(data) ==
  LET record == archive_record([data EXCEPT !.doc_url = Str(data.doc_url),
                                            !.filled_content = Str(data.filled_content)])
      metadata == dict_get(record.v, "metadata").v
  IN IF dict_has(metadata, "dnd")
     THEN dict_get(dict_get(metadata, "dnd").v, "subclass")
     ELSE None

\* the enhancement call follows the insertion of the base text with no
\* subclass and the prompt without subclass, both history records have no
\* subclass, and the run does not end by a ValueError of enhance_character
SubclassDropped ==
  /\ \A i \in Ops :
       /\ IsWrite(i, "insert_text", operations[i].char) =>
            /\ i = Len(operations) => pc = "inserted"
            /\ i < Len(operations) =>
                 LET call == operations[i + 1].data
                 IN /\ operations[i + 1].op = "enhance"
                    /\ call.subclass = None
                    /\ call.prompt =
                         build_enhancement_prompt(operations[i].data.text,
                                                  call.species.v, call.character_class.v,
                                                  call.level.v, None)
       /\ operations[i].op = "append_record" => RowSubclass(operations[i].data) = ""
       /\ operations[i].op = "append_character_json" =>
            ArchiveSubclass(operations[i].data) \in {None, Str("")}
       /\ IsWrite(i, "enhance", operations[i].char) /\ i = Len(operations) =>
            pc = "enhanced" /\ exit_status = "running"
  /\ exit_status # "ValueError"

\* C25: when a D&D profile is requested with a valid species and class and
\* a subclass outside the list of the class, the run does not fail: the
\* subclass is none when enhance_character is called, the prompt is the one
\* without subclass, both history records carry an empty or null subclass
\* and the run goes on; enhance_character raises no invalid-subclass error
C25_InvalidSubclassDropped == InvalidSubclassRequested => SubclassDropped

\* the same for the requests whose level is not 0
C25_InvalidSubclassDroppedNonZeroLevel ==
  (InvalidSubclassRequested /\ argv.level.v # 0) => SubclassDropped

\* enhance_character, called from main, raises no invalid-subclass error
C25_NoInvalidSubclassError ==
  exit_status = "ValueError" =>
    enhancement_error(locals.species, locals.character_class, locals.subclass)
      \in {"Invalid D&D species", "Invalid D&D class"}

\* --species Elf --class Wizard --subclass Berserker --level 0: no
\* enhancement call, and both history records carry Berserker
C25_LevelZeroKeepsSubclass ==
  /\ argv.mode = "cli"
  /\ argv.level = Num(0)
  /\ argv.subclass = Str("Berserker")
  /\ exit_status = "complete"
  /\ \A i \in Ops : operations[i].op # "enhance"
  /\ \E i \in Ops : /\ IsWrite(i, "append_record", 1)
                    /\ RowSubclass(operations[i].data) = "Berserker"
  /\ \E i \in Ops : /\ IsWrite(i, "append_character_json", 1)
                    /\ ArchiveSubclass(operations[i].data) = Str("Berserker")

\* how many operations op of the log have returned
Count(op) == Cardinality({i \in Ops : operations[i].op = op /\ operations[i].ok})

\* the number of characters the input holds
InputCharacters == IF argv.mode = "cli" THEN 1 ELSE Len(FileRecords)

\* character k has a created document and no history record
DocumentWithoutHistory(k) ==
  /\ \E i \in Ops : IsWrite(i, "create_doc", k)
  /\ \A i \in Ops :
       operations[i].char = k =>
         operations[i].op \notin {"append_record", "append_character_json"}

\* the enhancement call or the replacement of the document has failed
EnhancementFailed ==
  \/ exit_status \in {"ValueError", "TypeError"}
  \/ /\ operations # << >>
     /\ operations[Len(operations)].op \in {"enhance", "replace"}
     /\ ~ operations[Len(operations)].ok

\* C29: at every point of a run of main the CSV rows appended are as many
\* as the JSONL records or one more, neither are more than the documents
\* created, the CSV row of a character precedes its JSONL record; after a
\* complete run both are as many as the input characters; after a failure
\* of the enhancement call or of the document replace the character has a
\* created document and no history record
C29_HistoryCounts ==
  /\ Count("append_record") - Count("append_character_json") \in {0, 1}
  /\ Count("append_record") <= Count("create_doc")
  /\ Count("append_character_json") <= Count("create_doc")
  /\ \A j \in Ops :
       IsWrite(j, "append_character_json", operations[j].char) =>
         \E i \in 1..(j - 1) : IsWrite(i, "append_record", operations[j].char)
  /\ exit_status = "complete" =>
       /\ Count("append_record") = InputCharacters
       /\ Count("append_character_json") = InputCharacters
  /\ EnhancementFailed => DocumentWithoutHistory(char_idx)

\* two characters: the first has its document and both history records,
\* the replacement of the document of the second has failed, so it has a
\* document and no history record
C29_Witness ==
  /\ argv.mode = "jsonl"
  /\ argv.file = InputFile(<< PlainRecord, DndRecord >>)
  /\ argv.species = None
  /\ exit_status = "raised"
  /\ char_idx = 2
  /\ Count("create_doc") = 2
  /\ Count("append_record") = 1
  /\ Count("append_character_json") = 1
  /\ operations[Len(operations)].op = "replace"
  /\ DocumentWithoutHistory(2)

\* the values that steer the pipeline
ControlKeys ==
  {"name", "sex", "gender", "age_range", "occupation", "ethnicity",
   "new_doc_title", "json_output", "species", "character_class", "level",
   "subclass"}
ControlValues(char_args) == [key \in ControlKeys |-> py_get(char_args, key)]

\* the canonical record without its section blocks
WithoutSections(record) == SelectSeq(record, LAMBDA item : item.k \notin SectionNames)

\* the arguments extract_character_args derives from the canonical record
\* of each kind of record once its section blocks are left out
SectionlessArguments ==
  [record \in DOMAIN RecordArguments |->
     extract_character_args(WithoutSections(RecordValidation[record].record))]

\* C30: in file mode the control values of a character (name, sex, gender,
\* age_range, occupation, ethnicity, new_doc_title, json_output, species,
\* character_class, level, subclass) depend only on the mandatory fields
\* and the metadata block of the canonical record and on the CLI overrides:
\* they are those of the record that differs from it only by having no
\* section block, so no section field sets or overwrites a control value
C30_SectionsDoNotControl ==
  (FileMode /\ file_result.ok /\ pc # "main") =>
    \A n \in 1..Len(character_args_list) :
      ControlValues(character_args_list[n])
        = ControlValues(with_overrides(SectionlessArguments[FileRecords[n]], argv))

\* a record whose Demographics section holds Species, Character_Class and
\* level, given without overrides: the section has set the D&D values and
\* the enhancement call was made
C30_SectionSwitchesEnhancement ==
  /\ argv.mode = "json"
  /\ argv.file = InputFile(<< List(<< DndRecord >>) >>)
  /\ argv.species = None
  /\ file_result.ok
  /\ Len(character_args_list) = 1
  /\ ControlValues(extract_character_args(WithoutSections(file_result.characters[1])))
       = ControlValues(RecordArguments[PlainRecord])
  /\ py_get(character_args_list[1], "species") = Str("Elf")
  /\ \E i \in Ops : IsWrite(i, "enhance", 1)

(***************************************************************************)
(* The json_output directive through the validator                         *)
(***************************************************************************)
\* the json_output value the input gave: the text of the last non-blank
\* json_output cell of a row, or the value in the metadata mapping of a
\* native object
InputJsonOutput ==
  IF source = "row"
  THEN IF JsonOutputCells(csv_row) = {} THEN None
       ELSE Str(csv_row[Greatest(JsonOutputCells(csv_row))].v)
  ELSE IF /\ dict_has(input_object, "metadata")
          /\ isinstance_dict(dict_get(input_object, "metadata"))
          /\ dict_has(dict_get(input_object, "metadata").v, "json_output")
       THEN dict_get(dict_get(input_object, "metadata").v, "json_output")
       ELSE None

\* boolean true, the number 1, or a true token in any letter case
RecognisedTrue(x) ==
  \/ x = Bool(TRUE)
  \/ x = Num(1)
  \/ x.t = "str" /\ str_strip(x.v) \in TrueSpellings

\* C26: metadata.json_output is true in the canonical record only if the
\* input value was boolean true or a recognised true token (true/1/yes/y),
\* for a native object and for a row that went through the importer alike
C26_JsonOutputTrueOnlyFromTrue ==
  /\ pc = "validated" /\ result.ok
  /\ dict_has(result.record, "metadata")
  /\ dict_has(dict_get(result.record, "metadata").v, "json_output")
  /\ dict_get(dict_get(result.record, "metadata").v, "json_output") = Bool(TRUE)
  => RecognisedTrue(InputJsonOutput)

(***************************************************************************)
(* A mandatory field given at top level and inside a section               *)
(***************************************************************************)
\* the values the object supplies for the mandatory field m inside sections
AllNestedValues(object, m) ==
  UNION {NestedValues(object, sec, m) : sec \in SectionMappings(object)}

\* C28: when a mandatory field is given both at top level and inside a
\* section mapping with a different value, the canonical record holds the
\* top-level value, whatever the letter case of the top-level key
C28_TopLevelValueWins ==
  pc = "validated" /\ source = "object" /\ result.ok =>
    \A m \in MandatoryIndex :
      /\ TopLevelValues(input_object, m) # {}
      /\ AllNestedValues(input_object, m) \ TopLevelValues(input_object, m) # {}
      => dict_get(result.record, MandatoryKey(m)) \in TopLevelValues(input_object, m)

\* with the top-level key in another letter case than the hoisted one, the
\* top-level value does reach the record
C28_CapitalizedTopLevelWins ==
  /\ pc = "validated" /\ source = "object" /\ result.ok
  /\ \E m \in MandatoryIndex :
       /\ ~ dict_has(input_object, MandatoryKey(m))
       /\ TopLevelValues(input_object, m) # {}
       /\ AllNestedValues(input_object, m) \ TopLevelValues(input_object, m) # {}
       /\ dict_get(result.record, MandatoryKey(m)) \in TopLevelValues(input_object, m)

(***************************************************************************)
(* The Gemini client: its attributes, the model it caches and the Vertex   *)
(* AI configuration the SDK holds.  The SDK calls made by generate either  *)
(* go through or raise                                                     *)
(***************************************************************************)
MaxCalls == 3        \* calls made on one client

Projects == {"proj-a", "proj-b"}
Locations == {"us-central1", "europe-west4"}
ModelNames == {"gemini-2.5-flash", "gemini-2.5-pro"}

\* which SDK call of a generate raises, if any
SdkOutcomes ==
  {"ok", "vertexai.init raises", "GenerativeModel raises",
   "generate_content raises"}

\* GeminiClient(project, location, model_name)
GeminiClient(project, location, model_name) ==
  [project |-> project, location |-> location, model_name |-> model_name,
   _model |-> None]

\* vertexai.init(project=..., location=...)
vertexai_init(project, location) == [project |-> project, location |-> location]

\* GenerativeModel(model_name), bound to the configuration the SDK holds
GenerativeModel(model_name, sdk) ==
  [t |-> "GenerativeModel",
   v |-> [model_name |-> model_name, project |-> sdk.project,
          location |-> sdk.location]]

\* self._initialize_model(): the client and the SDK after it, whether a
\* model was loaded, whether it raised
_initialize_model(self, sdk, outcome) ==
  IF self._model # None
  THEN [self |-> self, sdk |-> sdk, loaded |-> FALSE, raised |-> FALSE]
  ELSE IF outcome = "vertexai.init raises"
  THEN [self |-> self, sdk |-> sdk, loaded |-> FALSE, raised |-> TRUE]
  ELSE LET configured == vertexai_init(self.project, self.location)
       IN IF outcome = "GenerativeModel raises"
          THEN [self |-> self, sdk |-> configured, loaded |-> FALSE,
                raised |-> TRUE]
          ELSE [self |-> [self EXCEPT
                            !._model = GenerativeModel(self.model_name, configured)],
                sdk |-> configured, loaded |-> TRUE, raised |-> FALSE]

\* self.generate(prompt)
generate(self, sdk, outcome) ==
  LET init == _initialize_model(self, sdk, outcome)
  IN [self |-> init.self, sdk |-> init.sdk, loaded |-> init.loaded,
      raised |-> init.raised \/ outcome = "generate_content raises"]

set_model(self, model_name) ==
  [self EXCEPT !.model_name = model_name, !._model = None]

set_location_keeping_model(self, location) ==
  [self EXCEPT !.location = location]
set_location(self, location) ==
  [self EXCEPT !.location = location, !._model = None]

set_project(self, project) ==
  [self EXCEPT !.project = project, !._model = None]

reset(self) == [self EXCEPT !._model = None]

\* a call made on the client
Called(op, arg, outcome, loaded) ==
  [op |-> op, arg |-> arg, outcome |-> outcome, loaded |-> loaded]

InitClient ==
  /\ IdleOutsideClient
  /\ pc = "client"
  /\ \E project \in Projects, location \in Locations, model_name \in ModelNames :
       gemini_client = GeminiClient(project, location, model_name)
  /\ vertexai = NoVertex
  /\ client_calls = << >>

\* a call: the client after it; the SDK is touched by generate only
Setter(op, arg, self) ==
  /\ pc = "client"
  /\ Len(client_calls) < MaxCalls
  /\ gemini_client' = self
  /\ client_calls' = Append(client_calls, Called(op, arg, "ok", FALSE))
  /\ UNCHANGED <<pc, vertexai, notClient>>

GenerateText ==
  \E outcome \in SdkOutcomes :
    /\ pc = "client"
    /\ Len(client_calls) < MaxCalls
    \* with a cached model the first two SDK calls are not made
    /\ gemini_client._model # None =>
         outcome \in {"ok", "generate_content raises"}
    /\ LET call == generate(gemini_client, vertexai, outcome)
       IN /\ gemini_client' = call.self
          /\ vertexai' = call.sdk
          /\ client_calls' =
               Append(client_calls, Called("generate", "", outcome, call.loaded))
    /\ UNCHANGED <<pc, notClient>>

SetModel ==
  \E model_name \in ModelNames :
    Setter("set_model", model_name, set_model(gemini_client, model_name))

SetLocation ==
  \E location \in Locations :
    Setter("set_location", location, set_location(gemini_client, location))

SetProject ==
  \E project \in Projects :
    Setter("set_project", project, set_project(gemini_client, project))

Reset == Setter("reset", "", reset(gemini_client))

NextClient ==
  \/ GenerateText
  \/ SetModel
  \/ SetLocation
  \/ SetProject
  \/ Reset

SpecClient == InitClient /\ [][NextClient]_vars

(***************************************************************************)
(* Properties of the Gemini client                                         *)
(***************************************************************************)
\* what a model loaded now would be bound to
CurrentModel(self) ==
  GenerativeModel(self.model_name, vertexai_init(self.project, self.location))

\* the call just made
LastCall == client_calls'[Len(client_calls')]

CallStep ==
  /\ LastCall.op = "set_project" =>
       gemini_client' = [gemini_client EXCEPT !.project = LastCall.arg,
                                              !._model = None]
  /\ LastCall.op = "set_location" =>
       gemini_client' = [gemini_client EXCEPT !.location = LastCall.arg,
                                              !._model = None]
  /\ LastCall.op = "set_model" =>
       gemini_client' = [gemini_client EXCEPT !.model_name = LastCall.arg,
                                              !._model = None]
  /\ LastCall.op = "reset" =>
       gemini_client' = [gemini_client EXCEPT !._model = None]
  /\ LastCall.op = "generate" =>
       /\ \E model \in {gemini_client._model, CurrentModel(gemini_client), None} :
            gemini_client' = [gemini_client EXCEPT !._model = model]
       /\ LastCall.outcome \in {"vertexai.init raises", "GenerativeModel raises"}
            => gemini_client'._model = None
  /\ LastCall.loaded => LastCall.op = "generate" /\ gemini_client._model = None
  /\ gemini_client'._model \notin {None, gemini_client._model} => LastCall.loaded

\* C27: for any sequence of generate, set_project, set_location, set_model
\* and reset calls, each setter leaves its attribute equal to the new value
\* and clears the cached model, reset clears the cached model and changes no
\* attribute, a model is loaded only by generate and only while none is
\* cached, a failed initialisation leaves the cache empty, and a cached
\* model is always one initialised with the client's current project,
\* location and model name
C27_CachedModelIsCurrent ==
  /\ [](gemini_client._model # None =>
          gemini_client._model = CurrentModel(gemini_client))
  /\ [][client_calls' # client_calls => CallStep]_vars

\* a model was loaded, a setter cleared it, a generate failed to initialise
\* and left the cache empty
C27_Witness ==
  /\ Len(client_calls) = 3
  /\ client_calls[1].op = "generate" /\ client_calls[1].loaded
  /\ client_calls[2].op = "set_location"
  /\ client_calls[2].arg # "us-central1"
  /\ client_calls[3].op = "generate"
  /\ client_calls[3].outcome = "GenerativeModel raises"
  /\ gemini_client._model = None
  /\ gemini_client.location = client_calls[2].arg
  /\ vertexai.location = client_calls[2].arg
====
